---------------------------- MODULE Spec2Model ----------------------------
(***************************************************************************)
(* Verification model of the auto-phone-scheduler front end.               *)
(*                                                                         *)
(*  - ScrcpyPlayer (frontend/src/components/Layout.tsx): the live screen   *)
(*    relay client: socket life cycle, watchdog timer, decoder life cycle  *)
(*    and the buffering of video packets until the configuration packet.   *)
(*  - Debug console (frontend/src/pages/Debug.tsx): the step stream        *)
(*    observer with the sensitive-action confirmation dialog.              *)
(*  - Execution detail page (frontend/src/pages/ExecutionDetail.tsx): the  *)
(*    step stream observer of one Execution's history page.                *)
(*  - Run State Machine: the engine behind the REST interface.  Its code   *)
(*    is not part of the front end sources; it is modelled from the        *)
(*    design document (sections 4.1 and 5).                                *)
(*                                                                         *)
(* Every `await` of the TypeScript source is a suspension point: the       *)
(* handler is split there and other handlers may run in between.  React    *)
(* state (useState) is modelled as updated by the handler that sets it.    *)
(* Display-only state of the player (status, errorMessage, screenInfo)     *)
(* that no handler reads is left out.  The content of a token is           *)
(* identified with its position in the observer's event log; a chat item   *)
(* and a listed step are identified with their type and step index.        *)
(***************************************************************************)
EXTENDS Integers, Sequences, FiniteSets, TLC

(***************************************************************************)
(* Bounds of the model.                                                    *)
(***************************************************************************)
MaxSockets == 2
MaxMeta == 2
MaxHandlerRuns == 4
MaxTimers == 2
MaxLifePackets == 2
MaxStreams == 3
MaxCalls == 3
MaxEvents == 4
MaxSteps == 2
MaxViewerTimers == 6
MaxViewerEffects == 3
MaxLoadErrors == 2
MaxSubmits == 2
MaxToggles == 3
MaxRecords == 12
MaxLines == 3
MaxRefreshes == 2

VARIABLES
    \* ---- ScrcpyPlayer ----
    alive,             \* the component is mounted (its effect has run, not yet cleaned up for good)
    mountedRef,        \* mountedRef.current
    connectTimer,      \* the 50 ms timer of connectTimeoutRef is pending
    socketRef,         \* socketRef.current: 0 (null) or a socket id
    sockState,         \* per socket: "unused" | "opening" | "connected" | "dropped" | "closed"
    nSock,             \* sockets created so far by connect()
    decoderRef,        \* decoderRef.current: 0 (null) or a decoder id
    created,           \* decoders constructed so far
    disposed,          \* decoders on which dispose() was called
    canvasRef,         \* canvasRef.current: 0 (null) or a canvas id
    dom,               \* canvases attached to the video container
    fallbackTimerRef,  \* fallbackTimerRef.current: 0 (null) or a timer id
    timers,            \* pending watchdog timers
    timerSock,         \* the socket captured by each watchdog timer's closure
    nTimers,           \* watchdog timers armed so far
    hasReceivedData,   \* hasReceivedDataRef.current
    fallbacks,         \* sockets for which onFallback() was invoked
    sess,              \* per video-metadata handler invocation: its closure
    nMeta,             \* video-metadata events handled so far
    wlog,              \* per decoder: the packets passed to writer.write(), in call order
    acked,             \* per decoder: how many of those writes have completed
    flushers,          \* configuration handlers suspended in `await writer.write`
    nPkts,             \* video-data packets delivered so far
    nRuns,             \* handleVideoData invocations so far (a packet no handler takes counts once)
    handledBy,         \* history: the sessions whose handleVideoData ran for the latest packet
    seen,              \* history: per session, the data packets its handleVideoData ran for
    silentExpiry,      \* history: a watchdog expired without data since it was armed and without fallback
    dataSince,         \* history: per timer, video data was handled since it was armed
    \* ---- Debug console ----
    isExecuting,       \* useState isExecuting
    sensitiveAction,   \* useState sensitiveAction: 0 (null) or the step of the pending prompt
    pendingCommand,    \* useState pendingCommand: "" (null) or a command
    streams,           \* per executeStream invocation: its position, its command, the server's phase
    nStreams,          \* executeStream invocations so far
    requests,          \* the requests sent to the engine, in order
    pausedSensitive,   \* history: the last segment ended paused for a sensitive action and no command was started since
    lastNotice,        \* the chat item the operator's last action appended: "user", "confirmed" or "cancelled"
    debugStreamingThinking, \* useState streamingThinking: the tokens appended, in order
    debugStreamingAction,   \* useState streamingAction: the tokens appended, in order
    currentStreamStepRef,   \* useRef currentStreamStepRef
    chatItems,         \* useState chatItems: the items' types
    debugLog,          \* history: the events dispatched since the last executeStream began
    \* ---- Execution detail page ----
    execution,         \* useQuery data: the Execution record as last fetched
    effectPending,     \* the SSE effect is due (its dependencies changed)
    streamSteps,       \* useState streamSteps: the steps' indices
    isStreaming,       \* useState isStreaming
    eventSource,       \* the EventSource of the effect: "none", "open" or "closed"
    streamingThinking, \* useState streamingThinking: the tokens appended, in order
    streamingAction,   \* useState streamingAction: the tokens appended, in order
    currentStep,       \* the effect's local currentStep
    refetching,        \* the done listener is awaiting refetch()
    detailLog,         \* history: the events the EventSource dispatched since it was opened
    openedAs,          \* history: the status the page was first shown
    inbox,             \* the events sent on the stream and not yet dispatched
    attached,          \* the engine is sending the Execution's events on the stream
    runStatus,         \* the observed Execution's status on the engine
    runSteps,          \* the number of steps the Execution has persisted
    pausedAt,          \* the step at which the Execution last paused
    \* ---- Run State Machine ----
    execStatus,        \* per Execution: its status
    execDevice,        \* per Execution: its device serial
    nExec,             \* Executions created so far
    deviceLock,        \* per device serial: the lock is taken
    calls,             \* per start call: its device, its position, its outcome
    nCalls,            \* start calls so far
    \* ---- ScreenshotViewer ----
    viewerMounted,     \* the component is mounted
    viewerMountedRef,  \* mountedRef.current
    timeoutRef,        \* timeoutRef.current: 0 (null) or a timer id
    viewerTimers,      \* the pending refresh timers: their id and the effect run that made them
    nViewerTimers,     \* refresh timers armed so far
    viewerEffect,      \* the number of the latest run of the effect
    imageUrl,          \* useState imageUrl: the effect run that set it last, 0 ('') before
    nImageUpdates,     \* history: calls of setImageUrl so far
    nLoadErrors,       \* history: image load errors so far
    \* ---- Task form (TaskList) ----
    isDialogOpen,      \* useState isDialogOpen
    editingTask,       \* useState editingTask: 0 (null) or the id of the task being edited
    formData,          \* useState formData: the fields the handlers below read or write
    tasks,             \* the tasks as the server stores them
    browserZone,       \* the time zone Intl.DateTimeFormat() resolves to in this browser now
    taskRequests,      \* the create / update requests sent and not yet stored
    taskResponses,     \* the responses of stored requests not yet delivered
    nSubmits,          \* submissions so far
    nToggles,          \* history: clicks on channel checkboxes since the form was filled
    \* ---- Execution history list (ExecutionHistory) ----
    page,              \* useState page
    countData,         \* the executions-count query's data: the count as last fetched, 0 before
    records,           \* the execution records the server holds
    clearing,          \* a clear-all request was answered and its onSuccess has not run yet
    \* ---- Debug stream parser (the read loop of executeStream) ----
    wire,              \* the bytes of the response body written and not yet read
    consumed,          \* history: the bytes read so far
    streamClosed,      \* the server has closed the response body
    nLines,            \* lines written so far
    parser,            \* decoder, buffer, eventType and the position of executeStream
    splitSeen,         \* history: a read ended inside a line / inside a character
    \* ---- Device preview of the Debug and Execution detail pages ----
    route,             \* the page the router shows: "debug", "detail" or "other"
    activeDevice,      \* the serial of the first device with status 'device', "" for none
    useFallback,       \* useState useFallback of each page
    streamKey,         \* useState streamKey of the Debug page
    stableDeviceId,    \* useState stableDeviceId of the Execution detail page, "" for null
    isRunning,         \* isRunning of the Execution detail page
    playerRendered,    \* history: the mounted page has rendered a ScrcpyPlayer
    sinceFallback      \* history: what happened on the page after it entered fallback mode

playerVars == <<alive, mountedRef, connectTimer, socketRef, sockState, nSock,
                decoderRef, created, disposed, canvasRef, dom, fallbackTimerRef,
                timers, timerSock, nTimers, hasReceivedData, fallbacks, sess, nMeta,
                wlog, acked, flushers, nPkts, nRuns, handledBy, seen, silentExpiry, dataSince>>

debugVars == <<isExecuting, sensitiveAction, pendingCommand, streams, nStreams,
               requests, pausedSensitive, lastNotice, debugStreamingThinking,
               debugStreamingAction, currentStreamStepRef, chatItems, debugLog>>

runVars == <<runStatus, runSteps, pausedAt>>

detailView == <<execution, effectPending, streamSteps, isStreaming, eventSource,
                streamingThinking, streamingAction, currentStep, refetching,
                detailLog, openedAs>>

detailVars == <<detailView, inbox, attached, runVars>>

engineVars == <<execStatus, execDevice, nExec, deviceLock, calls, nCalls>>

viewerVars == <<viewerMounted, viewerMountedRef, timeoutRef, viewerTimers,
                nViewerTimers, viewerEffect, imageUrl, nImageUpdates, nLoadErrors>>

formVars == <<isDialogOpen, editingTask, formData, tasks, browserZone, taskRequests,
              taskResponses, nSubmits, nToggles>>

historyVars == <<page, countData, records, clearing>>

parserVars == <<wire, consumed, streamClosed, nLines, parser, splitSeen>>
previewVars == <<route, activeDevice, useFallback, streamKey, stableDeviceId, isRunning,
                 playerRendered, sinceFallback>>

\* The components modelled on their own.
widgetVars == <<viewerVars, formVars, historyVars, parserVars, previewVars>>

vars == <<playerVars, debugVars, detailVars, engineVars, widgetVars>>

\* What the steps of one component leave alone.
notPlayer == <<debugVars, detailVars, engineVars, widgetVars>>
notDebug == <<playerVars, detailVars, engineVars, widgetVars>>
notDetail == <<playerVars, debugVars, engineVars, widgetVars>>
notEngine == <<playerVars, debugVars, detailVars, widgetVars>>
notViewer == <<playerVars, debugVars, detailVars, engineVars, formVars, historyVars,
               parserVars, previewVars>>
notForm == <<playerVars, debugVars, detailVars, engineVars, viewerVars, historyVars,
             parserVars, previewVars>>
notHistory == <<playerVars, debugVars, detailVars, engineVars, viewerVars, formVars,
                parserVars, previewVars>>
notParser == <<playerVars, debugVars, detailVars, engineVars, viewerVars, formVars,
               historyVars, previewVars>>
notPreview == <<playerVars, debugVars, detailVars, engineVars, viewerVars, formVars,
                historyVars, parserVars>>

Sockets == 1..MaxSockets
Sessions == 1..MaxMeta
TimerIds == 1..MaxTimers

PacketTypes == {"configuration", "data"}

NoSession == [sock |-> 0, pc |-> "none", configurationPacketSent |-> FALSE,
              pendingDataPackets |-> <<>>]

(***************************************************************************)
(* ScrcpyPlayer                                                            *)
(***************************************************************************)

\* Initial state: the component has rendered and its effect has armed the
\* 50 ms connect timer; every ref holds its useRef() initial value.
InitPlayer ==
    /\ alive = TRUE
    /\ mountedRef = FALSE
    /\ connectTimer = TRUE
    /\ socketRef = 0
    /\ sockState = [s \in Sockets |-> "unused"]
    /\ nSock = 0
    /\ decoderRef = 0
    /\ created = {}
    /\ disposed = {}
    /\ canvasRef = 0
    /\ dom = {}
    /\ fallbackTimerRef = 0
    /\ timers = {}
    /\ timerSock = [t \in TimerIds |-> 0]
    /\ nTimers = 0
    /\ hasReceivedData = FALSE
    /\ fallbacks = {}
    /\ sess = [k \in Sessions |-> NoSession]
    /\ nMeta = 0
    /\ wlog = [k \in Sessions |-> <<>>]
    /\ acked = [k \in Sessions |-> 0]
    /\ flushers = {}
    /\ nPkts = 0
    /\ nRuns = 0
    /\ handledBy = {}
    /\ seen = [k \in Sessions |-> {}]
    /\ silentExpiry = FALSE
    /\ dataSince = [t \in TimerIds |-> FALSE]

\* socket.close() / socket.disconnect() called by the client on socket s.
CloseSocket(st, s) == IF s = 0 THEN st ELSE [st EXCEPT ![s] = "closed"]

\* disconnect(): dispose the decoder, detach the canvas, close the socket,
\* clear the watchdog.  Yields the new values of the refs it touches.
DisconnectEffect ==
    /\ disposed' = IF decoderRef # 0 THEN disposed \cup {decoderRef} ELSE disposed
    /\ decoderRef' = 0
    /\ dom' = IF canvasRef # 0 THEN dom \ {canvasRef} ELSE dom
    /\ canvasRef' = 0
    /\ fallbackTimerRef' = 0
    /\ timers' = IF fallbackTimerRef # 0 THEN timers \ {fallbackTimerRef} ELSE timers

\* The effect's cleanup (lines 352-363): clear the connect timer and, if the
\* component had really mounted, disconnect().
EffectCleanup ==
    /\ mountedRef' = FALSE
    /\ IF mountedRef
         THEN /\ DisconnectEffect
              /\ sockState' = CloseSocket(sockState, socketRef)
              /\ socketRef' = 0
         ELSE UNCHANGED <<disposed, decoderRef, dom, canvasRef, fallbackTimerRef,
                          timers, sockState, socketRef>>

\* The 50 ms timer of the effect fires: mountedRef := true; connect().
\* connect() runs disconnect(), resets hasReceivedDataRef and opens a socket.
ConnectTimerFire ==
    /\ alive /\ connectTimer
    /\ nSock < MaxSockets
    /\ connectTimer' = FALSE
    /\ mountedRef' = TRUE
    /\ DisconnectEffect
    /\ hasReceivedData' = FALSE
    /\ nSock' = nSock + 1
    /\ socketRef' = nSock + 1
    /\ sockState' = [CloseSocket(sockState, socketRef) EXCEPT ![nSock + 1] = "opening"]
    /\ UNCHANGED <<alive, created, timerSock, nTimers, fallbacks, sess, nMeta, wlog,
                   acked, flushers, nPkts, nRuns, handledBy, seen, silentExpiry, dataSince,
                   notPlayer>>

\* deviceId changes: the effect is cleaned up and run again (a new 50 ms timer).
DeviceIdChange ==
    /\ alive
    /\ EffectCleanup
    /\ connectTimer' = TRUE
    /\ UNCHANGED <<alive, nSock, created, timerSock, nTimers, hasReceivedData,
                   fallbacks, sess, nMeta, wlog, acked, flushers, nPkts, nRuns, handledBy, seen,
                   silentExpiry, dataSince,
                   notPlayer>>

\* The component unmounts: the effect is cleaned up for good.
Unmount ==
    /\ alive
    /\ alive' = FALSE
    /\ EffectCleanup
    /\ connectTimer' = FALSE
    /\ UNCHANGED <<nSock, created, timerSock, nTimers, hasReceivedData,
                   fallbacks, sess, nMeta, wlog, acked, flushers, nPkts, nRuns, handledBy, seen,
                   silentExpiry, dataSince,
                   notPlayer>>

\* socket.on('connect'): emit connect-device and arm the watchdog.  The event
\* fires on the first connection and again on every automatic reconnection.
SocketConnect(s) ==
    /\ sockState[s] \in {"opening", "dropped"}
    /\ nTimers < MaxTimers
    /\ sockState' = [sockState EXCEPT ![s] = "connected"]
    /\ nTimers' = nTimers + 1
    /\ fallbackTimerRef' = nTimers + 1
    /\ timers' = timers \cup {nTimers + 1}
    /\ timerSock' = [timerSock EXCEPT ![nTimers + 1] = s]
    /\ dataSince' = [dataSince EXCEPT ![nTimers + 1] = FALSE]
    /\ UNCHANGED <<alive, mountedRef, connectTimer, socketRef, nSock, decoderRef,
                   created, disposed, canvasRef, dom, hasReceivedData, fallbacks,
                   sess, nMeta, wlog, acked, flushers, nPkts, nRuns, handledBy, seen, silentExpiry,
                   notPlayer>>

\* socket.on('connect_error'): the connection could not be established.
SocketConnectError(s) ==
    /\ sockState[s] = "opening"
    /\ fallbacks' = fallbacks \cup {s}
    /\ UNCHANGED <<alive, mountedRef, connectTimer, socketRef, sockState, nSock,
                   decoderRef, created, disposed, canvasRef, dom, fallbackTimerRef,
                   timers, timerSock, nTimers, hasReceivedData, sess, nMeta, wlog,
                   acked, flushers, nPkts, nRuns, handledBy, seen, silentExpiry, dataSince,
                   notPlayer>>

\* socket.on('disconnect') after a transport loss: socket.io will reconnect.
SocketDrop(s) ==
    /\ sockState[s] = "connected"
    /\ sockState' = [sockState EXCEPT ![s] = "dropped"]
    /\ UNCHANGED <<alive, mountedRef, connectTimer, socketRef, nSock, decoderRef,
                   created, disposed, canvasRef, dom, fallbackTimerRef, timers,
                   timerSock, nTimers, hasReceivedData, fallbacks, sess, nMeta, wlog,
                   acked, flushers, nPkts, nRuns, handledBy, seen, silentExpiry, dataSince,
                   notPlayer>>

\* The watchdog's test when it expires (line 219).
WatchdogGivesUp == ~hasReceivedData

\* A watchdog timer expires (lines 218-225).
WatchdogFire(t) ==
    /\ t \in timers
    /\ timers' = timers \ {t}
    /\ IF WatchdogGivesUp
         THEN /\ sockState' = CloseSocket(sockState, timerSock[t])
              /\ fallbacks' = fallbacks \cup {timerSock[t]}
              /\ UNCHANGED silentExpiry
         ELSE /\ UNCHANGED <<sockState, fallbacks>>
              /\ silentExpiry' = (silentExpiry \/ ~dataSince[t])
    /\ UNCHANGED <<alive, mountedRef, connectTimer, socketRef, nSock, decoderRef,
                   created, disposed, canvasRef, dom, fallbackTimerRef, timerSock,
                   nTimers, hasReceivedData, sess, nMeta, wlog, acked, flushers,
                   nPkts, nRuns, handledBy, seen, dataSince,
                   notPlayer>>

\* socket.on('video-metadata'), up to the first await (lines 228-241 and
\* createDecoder lines 127-136): dispose the decoder decoderRef holds, detach
\* the canvas canvasRef holds, then suspend in createVideoFrameRenderer().
VideoMetadata(s) ==
    /\ sockState[s] = "connected"
    /\ nMeta < MaxMeta
    /\ nMeta' = nMeta + 1
    /\ disposed' = IF decoderRef # 0 THEN disposed \cup {decoderRef} ELSE disposed
    /\ decoderRef' = 0
    /\ dom' = IF canvasRef # 0 THEN dom \ {canvasRef} ELSE dom
    /\ sess' = [sess EXCEPT ![nMeta + 1] = [NoSession EXCEPT !.sock = s, !.pc = "renderer"]]
    /\ UNCHANGED <<alive, mountedRef, connectTimer, socketRef, sockState, nSock,
                   created, canvasRef, fallbackTimerRef, timers, timerSock, nTimers,
                   hasReceivedData, fallbacks, wlog, acked, flushers, nPkts, nRuns,
                   handledBy, seen, silentExpiry, dataSince,
                   notPlayer>>

\* createDecoder resumes after `await createVideoFrameRenderer()` (lines
\* 136-143): the new canvas is stored and attached, the decoder constructed.
\* The handler is then suspended in `await createDecoder(codecId)`.
RendererReady(k) ==
    /\ sess[k].pc = "renderer"
    /\ canvasRef' = k
    /\ dom' = dom \cup {k}
    /\ created' = created \cup {k}
    /\ sess' = [sess EXCEPT ![k].pc = "decoder"]
    /\ UNCHANGED <<alive, mountedRef, connectTimer, socketRef, sockState, nSock,
                   decoderRef, disposed, fallbackTimerRef, timers, timerSock, nTimers,
                   hasReceivedData, fallbacks, nMeta, wlog, acked, flushers, nPkts, nRuns,
                   handledBy, seen, silentExpiry, dataSince,
                   notPlayer>>

\* The handler resumes after `await createDecoder(codecId)` (lines 241-299):
\* the decoder is installed in decoderRef, its writer taken, the per-session
\* buffering state created and handleVideoData registered on the socket.
DecoderReady(k) ==
    /\ sess[k].pc = "decoder"
    /\ decoderRef' = k
    /\ sess' = [sess EXCEPT ![k].pc = "on"]
    /\ UNCHANGED <<alive, mountedRef, connectTimer, socketRef, sockState, nSock,
                   created, disposed, canvasRef, dom, fallbackTimerRef, timers,
                   timerSock, nTimers, hasReceivedData, fallbacks, nMeta, wlog, acked,
                   flushers, nPkts, nRuns, handledBy, seen, silentExpiry, dataSince,
                   notPlayer>>

\* createDecoder throws (WebCodecs unsupported, renderer construction fails):
\* the catch block closes the socket and signals fallback (lines 301-307).
DecoderFails(k) ==
    /\ sess[k].pc = "renderer"
    /\ sess' = [sess EXCEPT ![k].pc = "failed"]
    /\ sockState' = CloseSocket(sockState, sess[k].sock)
    /\ fallbacks' = fallbacks \cup {sess[k].sock}
    /\ UNCHANGED <<alive, mountedRef, connectTimer, socketRef, nSock, decoderRef,
                   created, disposed, canvasRef, dom, fallbackTimerRef, timers,
                   timerSock, nTimers, hasReceivedData, nMeta, wlog, acked, flushers,
                   nPkts, nRuns, handledBy, seen, silentExpiry, dataSince,
                   notPlayer>>

\* The handlers socket.on('video-data', ...) registered on socket s; they are
\* never removed (there is no socket.off).
Registered(s) == {k \in Sessions : sess[k].pc = "on" /\ sess[k].sock = s}

\* Mutation of ShouldQueue: the data branch forgets the flag and always writes.
ShouldQueueNever(k) == FALSE

\* Line 290: a data packet is queued while no configuration packet was seen.
ShouldQueue(k) == ~sess[k].configurationPacketSent

\* handleVideoData up to its first await, for session k and packet p
\* (lines 254-295): the session's new closure state and write log.
SessAfterPacket(k, p) ==
    IF p.t = "configuration"
      THEN [sess[k] EXCEPT !.configurationPacketSent = TRUE]
      ELSE IF ShouldQueue(k)
        THEN [sess[k] EXCEPT !.pendingDataPackets = Append(@, p)]
        ELSE sess[k]

LogAfterPacket(k, p) ==
    IF p.t = "configuration" \/ ~ShouldQueue(k)
      THEN Append(wlog[k], p)
      ELSE wlog[k]

\* A video-data packet of type t is delivered on socket s: every registered
\* handleVideoData runs up to its first await.
VideoData(s, t) ==
    /\ sockState[s] = "connected"
    /\ LET p == [n |-> nPkts + 1, t |-> t]
           R == Registered(s)
           cost == IF R = {} THEN 1 ELSE Cardinality(R)
       IN /\ nRuns + cost <= MaxHandlerRuns
          /\ nRuns' = nRuns + cost
          /\ nPkts' = nPkts + 1
          /\ handledBy' = R
          /\ seen' = [k \in Sessions |-> IF k \in R /\ t = "data" THEN seen[k] \cup {nPkts + 1} ELSE seen[k]]
          /\ sess' = [k \in Sessions |-> IF k \in R THEN SessAfterPacket(k, p) ELSE sess[k]]
          /\ wlog' = [k \in Sessions |-> IF k \in R THEN LogAfterPacket(k, p) ELSE wlog[k]]
          /\ flushers' = IF t = "configuration"
                           THEN flushers \cup {[s |-> k, pos |-> Len(wlog[k]) + 1, i |-> 0] : k \in R}
                           ELSE flushers
          /\ IF R # {}
               THEN /\ hasReceivedData' = TRUE
                    /\ fallbackTimerRef' = 0
                    /\ timers' = timers \ {fallbackTimerRef}
                    /\ dataSince' = [x \in TimerIds |-> TRUE]
               ELSE UNCHANGED <<hasReceivedData, fallbackTimerRef, timers, dataSince>>
    /\ UNCHANGED <<alive, mountedRef, connectTimer, socketRef, sockState, nSock,
                   decoderRef, created, disposed, canvasRef, dom, timerSock, nTimers,
                   fallbacks, nMeta, acked, silentExpiry,
                   notPlayer>>

\* The array iterator of `for (const p of pendingDataPackets)` (line 279):
\* it yields the element at its index as long as the index is below the
\* array's current length.
IteratorHasNext(k, i) == i < Len(sess[k].pendingDataPackets)

\* The decoder's writable stream completes its oldest outstanding write; the
\* handler awaiting it resumes (lines 277-288): a configuration handler writes
\* the next queued packet, or, its loop over, empties the queue.
WriteDone(k) ==
    /\ acked[k] < Len(wlog[k])
    /\ acked' = [acked EXCEPT ![k] = @ + 1]
    /\ LET F == {f \in flushers : f.s = k /\ f.pos = acked[k] + 1}
       IN IF F = {}
            THEN UNCHANGED <<flushers, wlog, sess>>
            ELSE LET f == CHOOSE x \in F : TRUE
                 IN IF IteratorHasNext(k, f.i)
                      THEN /\ wlog' = [wlog EXCEPT ![k] = Append(@, sess[k].pendingDataPackets[f.i + 1])]
                           /\ flushers' = (flushers \ {f}) \cup
                                  {[s |-> k, pos |-> Len(wlog[k]) + 1, i |-> f.i + 1]}
                           /\ UNCHANGED sess
                      ELSE /\ sess' = [sess EXCEPT ![k].pendingDataPackets = <<>>]
                           /\ flushers' = flushers \ {f}
                           /\ UNCHANGED wlog
    /\ UNCHANGED <<alive, mountedRef, connectTimer, socketRef, sockState, nSock,
                   decoderRef, created, disposed, canvasRef, dom, fallbackTimerRef,
                   timers, timerSock, nTimers, hasReceivedData, fallbacks, nMeta,
                   nPkts, nRuns, handledBy, seen, silentExpiry, dataSince,
                   notPlayer>>

(***************************************************************************)
(* Debug console                                                           *)
(***************************************************************************)

StreamIds == 1..MaxStreams

\* The commands the operator types, and the fixed continuation instruction of
\* handleConfirmSensitive (line 294, a fixed literal).
Commands == {"open wechat", "pay"}
ContinueCommand == "continue"

NoStream == [st |-> "none", command |-> "", srv |-> "run"]

\* Step indices carried by events, and the phases of a token.
Steps == 1..2
Phases == {"thinking", "action"}

\* One event as an observer received it.  n is its position in the observer's
\* log; a token's content is identified with n, so that the text of a buffer
\* is the sequence of the tokens appended to it.
Event(kind, step, phase, n, paused, reason) ==
    [kind |-> kind, step |-> step, phase |-> phase, n |-> n, paused |-> paused,
     reason |-> reason]

InitDebug ==
    /\ isExecuting = FALSE
    /\ sensitiveAction = 0
    /\ pendingCommand = ""
    /\ streams = [i \in StreamIds |-> NoStream]
    /\ nStreams = 0
    /\ requests = <<>>
    /\ pausedSensitive = FALSE
    /\ lastNotice = ""
    /\ debugStreamingThinking = <<>>
    /\ debugStreamingAction = <<>>
    /\ currentStreamStepRef = 0
    /\ chatItems = <<>>
    /\ debugLog = <<>>

\* The confirmation dialog is open (line 450).  It is a modal AlertDialog:
\* while it is open the input area cannot be reached.
DialogOpen == sensitiveAction # 0

\* A chat item: its type and, for the items of a step, the step's index.
ChatItem(type, step) == [type |-> type, step |-> step]

\* executeStream(command) up to `await fetch` (lines 60-73): the streaming
\* state is reset and the request is posted to /debug/execute-stream.
StartStream(command, by) ==
    /\ nStreams < MaxStreams
    /\ nStreams' = nStreams + 1
    /\ streams' = [streams EXCEPT ![nStreams + 1] =
                      [st |-> "fetch", command |-> command, srv |-> "run"]]
    /\ requests' = Append(requests, [kind |-> "execute", command |-> command, by |-> by])
    /\ debugStreamingThinking' = <<>>
    /\ debugStreamingAction' = <<>>
    /\ currentStreamStepRef' = 0
    /\ debugLog' = <<Event("start", 0, "", 1, FALSE, "")>>

\* handleSend (lines 256-272).
HandleSend(cmd) ==
    /\ ~isExecuting
    /\ ~DialogOpen
    /\ chatItems' = Append(chatItems, ChatItem("user", 0))
    /\ isExecuting' = TRUE
    /\ StartStream(cmd, "send")
    /\ pausedSensitive' = FALSE
    /\ lastNotice' = "user"
    /\ UNCHANGED <<sensitiveAction, pendingCommand, notDebug>>

\* The response arrives with an OK status and a body (lines 75-81).
FetchOk(i) ==
    /\ streams[i].st = "fetch"
    /\ streams' = [streams EXCEPT ![i].st = "read"]
    /\ UNCHANGED <<isExecuting, sensitiveAction, pendingCommand, nStreams, requests,
                   pausedSensitive, lastNotice, debugStreamingThinking,
                   debugStreamingAction, currentStreamStepRef, chatItems, debugLog,
                   notDebug>>

\* fetch rejects, the response is not OK or has no body: the catch block
\* (lines 242-253).
FetchFails(i) ==
    /\ streams[i].st = "fetch"
    /\ streams' = [streams EXCEPT ![i].st = "closed"]
    /\ debugStreamingThinking' = <<>>
    /\ debugStreamingAction' = <<>>
    /\ currentStreamStepRef' = 0
    /\ chatItems' = Append(chatItems, ChatItem("error", 0))
    /\ debugLog' = Append(debugLog, Event("error", 0, "", Len(debugLog) + 1, FALSE, ""))
    /\ isExecuting' = FALSE
    /\ UNCHANGED <<sensitiveAction, pendingCommand, nStreams, requests,
                   pausedSensitive, lastNotice, notDebug>>

\* The highest index of the `step` events in an observer's log, 0 if none.
LastStepIn(L) ==
    LET S == {L[j].step : j \in {x \in DOMAIN L : L[x].kind = "step"}}
    IN IF S = {} THEN 0 ELSE CHOOSE m \in S : \A x \in S : x <= m

\* What the engine may emit next on stream i (design document, section 4.3):
\* tokens and steps while the run is running; `sensitive` and `takeover` are
\* emitted when the run pauses, and the segment then ends with
\* `done {paused: true}` carrying that reason.
ServerMayEmit(i, e) ==
    /\ streams[i].st = "read"
    /\ CASE e \in {"token", "step", "sensitive", "takeover", "done", "error"} ->
                streams[i].srv = "run"
         [] e = "done-sensitive" -> streams[i].srv = "sens"
         [] e = "done-takeover" -> streams[i].srv = "take"
         [] OTHER -> FALSE

\* Line 109: the token belongs to another step than the one being streamed.
DebugIsNewStep(step) == step # currentStreamStepRef

\* A `token` event is read (lines 107-121).
OnToken(i, step, phase) ==
    /\ ServerMayEmit(i, "token")
    /\ Len(debugLog) < MaxEvents
    /\ LET n == Len(debugLog) + 1
           thinking == IF DebugIsNewStep(step) THEN <<>> ELSE debugStreamingThinking
           action == IF DebugIsNewStep(step) THEN <<>> ELSE debugStreamingAction
       IN /\ debugLog' = Append(debugLog, Event("token", step, phase, n, FALSE, ""))
          /\ currentStreamStepRef' = IF DebugIsNewStep(step) THEN step ELSE currentStreamStepRef
          /\ debugStreamingThinking' = IF phase = "thinking" THEN Append(thinking, n) ELSE thinking
          /\ debugStreamingAction' = IF phase = "action" THEN Append(action, n) ELSE action
    /\ UNCHANGED <<isExecuting, sensitiveAction, pendingCommand, streams, nStreams,
                   requests, pausedSensitive, lastNotice, chatItems, notDebug>>

\* Mutation of DebugTextAfterStep: the step branch leaves the buffers alone.
DebugTextKept(text) == text

\* Lines 133-134: the step branch empties the streaming buffers.
DebugTextAfterStep(text) == <<>>

\* A `step` event is read (lines 125-172), carrying a thinking text and an
\* ordinary action and not finishing the run: the buffers are emptied and the
\* finalized thinking and action are appended to the chat.  The engine sends
\* step indices in non-decreasing order.
OnStep(i, n) ==
    /\ ServerMayEmit(i, "step")
    /\ Len(debugLog) < MaxEvents
    /\ n >= LastStepIn(debugLog)
    /\ debugLog' = Append(debugLog, Event("step", n, "", Len(debugLog) + 1, FALSE, ""))
    /\ debugStreamingThinking' = DebugTextAfterStep(debugStreamingThinking)
    /\ debugStreamingAction' = DebugTextAfterStep(debugStreamingAction)
    /\ chatItems' = chatItems \o <<ChatItem("thinking", n), ChatItem("action", n)>>
    /\ UNCHANGED <<isExecuting, sensitiveAction, pendingCommand, streams, nStreams,
                   requests, pausedSensitive, lastNotice, currentStreamStepRef, notDebug>>

\* A `sensitive` event is read (lines 173-186): the dialog opens.
OnSensitive(i, step) ==
    /\ ServerMayEmit(i, "sensitive")
    /\ sensitiveAction' = step
    /\ chatItems' = Append(chatItems, ChatItem("sensitive", 0))
    /\ debugLog' = Append(debugLog, Event("sensitive", step, "", Len(debugLog) + 1, FALSE, ""))
    /\ streams' = [streams EXCEPT ![i].srv = "sens"]
    /\ UNCHANGED <<isExecuting, pendingCommand, nStreams, requests, pausedSensitive,
                   lastNotice, debugStreamingThinking, debugStreamingAction,
                   currentStreamStepRef, notDebug>>

\* A `takeover` event is read (lines 187-194): a chat item only.
OnTakeover(i) ==
    /\ ServerMayEmit(i, "takeover")
    /\ chatItems' = Append(chatItems, ChatItem("takeover", 0))
    /\ debugLog' = Append(debugLog, Event("takeover", 0, "", Len(debugLog) + 1, FALSE, ""))
    /\ streams' = [streams EXCEPT ![i].srv = "take"]
    /\ UNCHANGED <<isExecuting, sensitiveAction, pendingCommand, nStreams, requests,
                   pausedSensitive, lastNotice, debugStreamingThinking,
                   debugStreamingAction, currentStreamStepRef, notDebug>>

\* Mutations of KeepsCommand: the command is never kept; it is kept for every
\* pause.
KeepsCommandNever(pauseReason) == FALSE
KeepsCommandForEveryPause(pauseReason) == TRUE

\* Line 205: the command is kept for the continuation when the pause is for a
\* sensitive action.
KeepsCommand(pauseReason) == pauseReason = "sensitive"

\* Lines 197-199, 222-224: `done` and `error` empty the streaming state.
ResetStreaming ==
    /\ debugStreamingThinking' = <<>>
    /\ debugStreamingAction' = <<>>
    /\ currentStreamStepRef' = 0

\* `done` with paused = true is read (lines 195-209); executeStream returns.
OnDonePaused(i, pauseReason) ==
    /\ ServerMayEmit(i, IF pauseReason = "sensitive" THEN "done-sensitive" ELSE "done-takeover")
    /\ ResetStreaming
    /\ debugLog' = Append(debugLog, Event("done", 0, "", Len(debugLog) + 1, TRUE, pauseReason))
    /\ isExecuting' = FALSE
    /\ pendingCommand' = IF KeepsCommand(pauseReason) THEN streams[i].command ELSE pendingCommand
    /\ pausedSensitive' = IF pauseReason = "sensitive" THEN TRUE ELSE pausedSensitive
    /\ streams' = [streams EXCEPT ![i].st = "closed"]
    /\ UNCHANGED <<sensitiveAction, nStreams, requests, lastNotice, chatItems, notDebug>>

\* `done` with paused = false is read (lines 210-219); a failure that carries
\* a message is appended to the chat; executeStream returns.
OnDone(i, failureMessage) ==
    /\ ServerMayEmit(i, "done")
    /\ ResetStreaming
    /\ debugLog' = Append(debugLog, Event("done", 0, "", Len(debugLog) + 1, FALSE, ""))
    /\ chatItems' = IF failureMessage THEN Append(chatItems, ChatItem("result", 0)) ELSE chatItems
    /\ isExecuting' = FALSE
    /\ streams' = [streams EXCEPT ![i].st = "closed"]
    /\ UNCHANGED <<sensitiveAction, pendingCommand, nStreams, requests,
                   pausedSensitive, lastNotice, notDebug>>

\* `error` is read (lines 220-234); executeStream returns.
OnError(i) ==
    /\ ServerMayEmit(i, "error")
    /\ ResetStreaming
    /\ debugLog' = Append(debugLog, Event("error", 0, "", Len(debugLog) + 1, FALSE, ""))
    /\ chatItems' = Append(chatItems, ChatItem("error", 0))
    /\ isExecuting' = FALSE
    /\ streams' = [streams EXCEPT ![i].st = "closed"]
    /\ UNCHANGED <<sensitiveAction, pendingCommand, nStreams, requests,
                   pausedSensitive, lastNotice, notDebug>>

\* Mutation of StreamEnds: the end of the body leaves isExecuting as it is.
StreamEndsStaysExecuting(i) ==
    /\ streams[i].st = "read"
    /\ streams' = [streams EXCEPT ![i].st = "closed"]
    /\ UNCHANGED <<isExecuting, sensitiveAction, pendingCommand, nStreams, requests,
                   pausedSensitive, lastNotice, debugStreamingThinking,
                   debugStreamingAction, currentStreamStepRef, chatItems, debugLog,
                   notDebug>>

\* The body ends without `done` (reader.read() yields done, lines 88-89, 241).
StreamEnds(i) ==
    /\ streams[i].st = "read"
    /\ isExecuting' = FALSE
    /\ streams' = [streams EXCEPT ![i].st = "closed"]
    /\ UNCHANGED <<sensitiveAction, pendingCommand, nStreams, requests,
                   pausedSensitive, lastNotice, debugStreamingThinking,
                   debugStreamingAction, currentStreamStepRef, chatItems, debugLog,
                   notDebug>>

\* handleConfirmSensitive (lines 282-297): the dialog's "confirm" button.
HandleConfirmSensitive ==
    /\ DialogOpen
    /\ sensitiveAction' = 0
    /\ chatItems' = Append(chatItems, ChatItem("result", 0))
    /\ IF pendingCommand # ""
         THEN /\ isExecuting' = TRUE
              /\ StartStream(ContinueCommand, "confirm")
              /\ pendingCommand' = ""
              /\ pausedSensitive' = FALSE
         ELSE UNCHANGED <<isExecuting, streams, nStreams, requests, pendingCommand,
                          pausedSensitive, debugStreamingThinking, debugStreamingAction,
                          currentStreamStepRef, debugLog>>
    /\ lastNotice' = "confirmed"
    /\ UNCHANGED notDebug

\* handleCancelSensitive (lines 299-310): the dialog's "cancel" button, or the
\* dialog being dismissed (onOpenChange, line 450).
HandleCancelSensitive ==
    /\ DialogOpen
    /\ sensitiveAction' = 0
    /\ pendingCommand' = ""
    /\ chatItems' = Append(chatItems, ChatItem("error", 0))
    /\ lastNotice' = "cancelled"
    /\ UNCHANGED <<isExecuting, streams, nStreams, requests, pausedSensitive,
                   debugStreamingThinking, debugStreamingAction, currentStreamStepRef,
                   debugLog, notDebug>>

\* The console's control flow: commands, pauses, confirmations.
NextDebug ==
    \/ \E c \in Commands : HandleSend(c)
    \/ \E i \in StreamIds : FetchOk(i)
    \/ \E i \in StreamIds : FetchFails(i)
    \/ \E i \in StreamIds, n \in Steps : OnSensitive(i, n)
    \/ \E i \in StreamIds : OnTakeover(i)
    \/ \E i \in StreamIds, r \in {"sensitive", "takeover"} : OnDonePaused(i, r)
    \/ \E i \in StreamIds, m \in BOOLEAN : OnDone(i, m)
    \/ \E i \in StreamIds : OnError(i)
    \/ \E i \in StreamIds : StreamEnds(i)
    \/ HandleConfirmSensitive
    \/ HandleCancelSensitive

(***************************************************************************)
(* Execution detail page                                                   *)
(*                                                                         *)
(* The page observes one Execution.  The Execution itself and what the     *)
(* engine sends on /executions/{id}/stream follow the design document      *)
(* (sections 4.1 and 4.3); the engine's code is not part of the sources.   *)
(***************************************************************************)

\* The steps 1..n of a persisted step log, as the list of their indices.
StepSeq(n) == [j \in 1..n |-> j]

NoExecution == [status |-> "none", steps |-> <<>>]

InitDetail ==
    /\ execution = NoExecution
    /\ effectPending = FALSE
    /\ streamSteps = <<>>
    /\ isStreaming = FALSE
    /\ eventSource = "none"
    /\ streamingThinking = <<>>
    /\ streamingAction = <<>>
    /\ currentStep = 0
    /\ refetching = FALSE
    /\ detailLog = <<>>
    /\ openedAs = "none"
    /\ inbox = <<>>
    /\ attached = FALSE
    /\ runStatus \in {"pending", "running"}
    /\ runSteps = 0
    /\ pausedAt = 0

\* The status GET /executions/{id} reports (types/index.ts line 40 knows four
\* values): a paused Execution is a started, unfinished one.
ApiStatus == IF runStatus \in {"paused_sensitive", "paused_takeover"} THEN "running" ELSE runStatus

\* What GET /executions/{id} returns now.
Snapshot == [status |-> ApiStatus, steps |-> StepSeq(runSteps)]

\* The engine appends events to the stream of an attached observer.
Emit(events) == IF attached THEN inbox \o events ELSE inbox

\* ---- the Execution on the engine ----

\* PENDING -> RUNNING.
RunStarts ==
    /\ runStatus = "pending"
    /\ runStatus' = "running"
    /\ UNCHANGED <<runSteps, pausedAt, inbox, attached, detailView, notDetail>>

\* The Agent Loop yields a step: it is persisted and sent as a `step` event.
RunProducesStep ==
    /\ runStatus = "running"
    /\ runSteps < MaxSteps
    /\ runSteps' = runSteps + 1
    /\ inbox' = Emit(<<Event("step", runSteps + 1, "", 0, FALSE, "")>>)
    /\ UNCHANGED <<runStatus, pausedAt, attached, detailView, notDetail>>

\* Incremental text of a step is sent as a `token` event.
RunSendsToken(step, phase) ==
    /\ runStatus = "running"
    /\ attached
    /\ Len(detailLog) + Len(inbox) < MaxEvents
    /\ inbox' = Emit(<<Event("token", step, phase, 0, FALSE, "")>>)
    /\ UNCHANGED <<runStatus, runSteps, pausedAt, attached, detailView, notDetail>>

\* The replayed step log overlaps the live tail: the newest step is sent again.
RunResendsStep ==
    /\ attached
    /\ runSteps > 0
    /\ Len(detailLog) + Len(inbox) < MaxEvents
    /\ inbox' = Emit(<<Event("step", runSteps, "", 0, FALSE, "")>>)
    /\ UNCHANGED <<runStatus, runSteps, pausedAt, attached, detailView, notDetail>>

\* The step just yielded is sensitive or a takeover: the run pauses, the pause
\* event is sent and the stream segment ends with `done {paused: true}`.
RunPauses(reason) ==
    /\ runStatus = "running"
    /\ runSteps > pausedAt
    /\ pausedAt' = runSteps
    /\ runStatus' = IF reason = "sensitive" THEN "paused_sensitive" ELSE "paused_takeover"
    /\ inbox' = Emit(<<Event(reason, runSteps, "", 0, FALSE, ""),
                       Event("done", 0, "", 0, TRUE, reason)>>)
    /\ attached' = FALSE
    /\ UNCHANGED <<runSteps, detailView, notDetail>>

\* resume(execution_id): a new stream segment begins.
RunResumes ==
    /\ runStatus \in {"paused_sensitive", "paused_takeover"}
    /\ runStatus' = "running"
    /\ UNCHANGED <<runSteps, pausedAt, inbox, attached, detailView, notDetail>>

\* RUNNING -> SUCCESS or FAILED: the stream ends with `done {paused: false}`.
RunFinishes(status) ==
    /\ runStatus = "running"
    /\ runStatus' = status
    /\ inbox' = Emit(<<Event("done", 0, "", 0, FALSE, "")>>)
    /\ attached' = FALSE
    /\ UNCHANGED <<runSteps, pausedAt, detailView, notDetail>>

\* A fault of the run or of the stream: the Execution is marked FAILED and an
\* `error` event is sent.
RunFaults ==
    /\ runStatus = "running"
    /\ runStatus' = "failed"
    /\ inbox' = Emit(<<Event("error", 0, "", 0, FALSE, "")>>)
    /\ attached' = FALSE
    /\ UNCHANGED <<runSteps, pausedAt, detailView, notDetail>>

\* ---- the page ----

\* useQuery resolves for the first time (lines 160-165); the effect is due
\* because execution changed from undefined.
QueryLoaded ==
    /\ execution = NoExecution
    /\ execution' = Snapshot
    /\ openedAs' = ApiStatus
    /\ effectPending' = TRUE
    /\ UNCHANGED <<streamSteps, isStreaming, eventSource, streamingThinking,
                   streamingAction, currentStep, refetching, detailLog, inbox,
                   attached, runVars, notDetail>>

\* Line 172: the stream is subscribed to only for a running Execution.
Subscribes(status) == status = "running"

\* What a new subscriber is sent first: the persisted step log, and the final
\* `done` when the Execution is already terminal.
Replay ==
    [j \in 1..runSteps |-> Event("step", j, "", 0, FALSE, "")]
      \o (IF runStatus \in {"success", "failed"}
            THEN <<Event("done", 0, "", 0, FALSE, "")>> ELSE <<>>)

\* The SSE effect runs (lines 168-238), after the cleanup of its previous run
\* (lines 234-237).
RunEffect ==
    /\ effectPending
    /\ effectPending' = FALSE
    /\ IF Subscribes(execution.status)
         THEN /\ isStreaming' = TRUE
              /\ streamingThinking' = <<>>
              /\ streamingAction' = <<>>
              /\ currentStep' = 0
              /\ eventSource' = "open"
              /\ inbox' = Replay
              /\ attached' = (runStatus \notin {"success", "failed"})
              /\ detailLog' = <<>>
              /\ UNCHANGED streamSteps
         ELSE /\ streamSteps' = execution.steps
              /\ eventSource' = IF eventSource = "open" THEN "closed" ELSE eventSource
              /\ inbox' = <<>>
              /\ attached' = FALSE
              /\ UNCHANGED <<isStreaming, streamingThinking, streamingAction, currentStep,
                             detailLog>>
    /\ UNCHANGED <<execution, refetching, openedAs, runVars, notDetail>>

\* The event the EventSource dispatches next, numbered as the page receives it.
Incoming == [Head(inbox) EXCEPT !.n = Len(detailLog) + 1]

Dispatch(kind) ==
    /\ eventSource = "open"
    /\ inbox # <<>>
    /\ Head(inbox).kind = kind
    /\ inbox' = Tail(inbox)
    /\ detailLog' = Append(detailLog, Incoming)

\* Mutation of DetailIsNewStep: the token listener never resets the buffers.
DetailIsNewStepNever(step) == FALSE

\* Line 193: the token belongs to another step than the one being streamed.
DetailIsNewStep(step) == step # currentStep

\* The `token` listener (lines 190-205).
DetailToken ==
    /\ Dispatch("token")
    /\ LET e == Incoming
           thinking == IF DetailIsNewStep(e.step) THEN <<>> ELSE streamingThinking
           action == IF DetailIsNewStep(e.step) THEN <<>> ELSE streamingAction
       IN /\ currentStep' = IF DetailIsNewStep(e.step) THEN e.step ELSE currentStep
          /\ streamingThinking' = IF e.phase = "thinking" THEN Append(thinking, e.n) ELSE thinking
          /\ streamingAction' = IF e.phase = "action" THEN Append(action, e.n) ELSE action
    /\ UNCHANGED <<execution, effectPending, streamSteps, isStreaming, eventSource,
                   refetching, openedAs, attached, runVars, notDetail>>

\* Mutation of AlreadyListed: the step listener appends without looking.
AlreadyListedNever(prev, step) == FALSE

\* Line 212: a step with this index is already in the list.
AlreadyListed(prev, step) == \E j \in DOMAIN prev : prev[j] = step

\* Lines 216-217: the step listener empties the streaming buffers.
DetailTextAfterStep(text) == <<>>

\* The `step` listener (lines 208-218).
DetailStep ==
    /\ Dispatch("step")
    /\ streamSteps' = IF AlreadyListed(streamSteps, Incoming.step)
                        THEN streamSteps ELSE Append(streamSteps, Incoming.step)
    /\ streamingThinking' = DetailTextAfterStep(streamingThinking)
    /\ streamingAction' = DetailTextAfterStep(streamingAction)
    /\ UNCHANGED <<execution, effectPending, isStreaming, eventSource, currentStep,
                   refetching, openedAs, attached, runVars, notDetail>>

\* The event kinds the page listens to (lines 190, 208, 220, 229).
DetailListeners == {"token", "step", "done", "error"}

\* An event of a kind nobody listens to is dispatched to no listener.
DetailDrop ==
    /\ eventSource = "open"
    /\ inbox # <<>>
    /\ Head(inbox).kind \notin DetailListeners
    /\ inbox' = Tail(inbox)
    /\ detailLog' = Append(detailLog, Incoming)
    /\ UNCHANGED <<execution, effectPending, streamSteps, isStreaming, eventSource,
                   streamingThinking, streamingAction, currentStep, refetching,
                   openedAs, attached, runVars, notDetail>>

\* The `done` listener up to `await refetch()` (lines 220-225).
DetailDone ==
    /\ eventSource = "open"
    /\ inbox # <<>>
    /\ Head(inbox).kind = "done"
    /\ detailLog' = Append(detailLog, Incoming)
    /\ streamingThinking' = <<>>
    /\ streamingAction' = <<>>
    /\ eventSource' = "closed"
    /\ inbox' = <<>>
    /\ attached' = FALSE
    /\ refetching' = TRUE
    /\ UNCHANGED <<execution, effectPending, streamSteps, isStreaming, currentStep,
                   openedAs, runVars, notDetail>>

\* refetch() resolves (lines 225-226): the record is replaced, streaming ends;
\* the effect is due again if the status changed (line 238).
RefetchDone ==
    /\ refetching
    /\ refetching' = FALSE
    /\ execution' = Snapshot
    /\ isStreaming' = FALSE
    /\ effectPending' = (effectPending \/ Snapshot.status # execution.status)
    /\ UNCHANGED <<streamSteps, eventSource, streamingThinking, streamingAction,
                   currentStep, detailLog, openedAs, inbox, attached, runVars, notDetail>>

\* The `error` listener (lines 229-232), for an `error` event of the engine.
DetailError ==
    /\ eventSource = "open"
    /\ inbox # <<>>
    /\ Head(inbox).kind = "error"
    /\ detailLog' = Append(detailLog, Incoming)
    /\ isStreaming' = FALSE
    /\ eventSource' = "closed"
    /\ inbox' = <<>>
    /\ attached' = FALSE
    /\ UNCHANGED <<execution, effectPending, streamSteps, streamingThinking,
                   streamingAction, currentStep, refetching, openedAs, runVars, notDetail>>

\* The `error` listener (lines 229-232), for a failure of the connection.
DetailConnectionLost ==
    /\ eventSource = "open"
    /\ detailLog' = Append(detailLog, Event("lost", 0, "", Len(detailLog) + 1, FALSE, ""))
    /\ isStreaming' = FALSE
    /\ eventSource' = "closed"
    /\ inbox' = <<>>
    /\ attached' = FALSE
    /\ UNCHANGED <<execution, effectPending, streamSteps, streamingThinking,
                   streamingAction, currentStep, refetching, openedAs, runVars, notDetail>>

\* Line 259: the steps the page shows.
DetailSteps ==
    IF isStreaming \/ execution.status = "running" THEN streamSteps ELSE execution.steps

\* Line 304: the page shows the Execution as executing.
DetailIsRunning == execution.status = "running" \/ isStreaming

NextRun ==
    \/ RunStarts
    \/ RunProducesStep
    \/ \E r \in {"sensitive", "takeover"} : RunPauses(r)
    \/ RunResumes
    \/ \E st \in {"success", "failed"} : RunFinishes(st)
    \/ RunFaults

\* The page following an Execution from its opening.
NextDetail ==
    \/ NextRun
    \/ QueryLoaded
    \/ RunEffect
    \/ DetailStep
    \/ DetailDrop
    \/ DetailDone
    \/ RefetchDone
    \/ DetailError
    \/ DetailConnectionLost

(***************************************************************************)
(* Run State Machine: device exclusivity                                   *)
(*                                                                         *)
(* The engine is not part of the source tree.  This section follows the    *)
(* design document: start() of section 4.1, the shared-resource rule of    *)
(* section 5 and the per-device lock prescribed in section 9.              *)
(***************************************************************************)

Devices == {"emulator-5554", "usb-1"}
CallIds == 1..MaxCalls
ExecIds == 1..MaxCalls

ActiveStatuses == {"running", "paused_sensitive", "paused_takeover"}
TerminalStatuses == {"success", "failed"}

NoCall == [pc |-> "none", device |-> "", result |-> "", created |-> 0, sawActive |-> FALSE]

InitEngine ==
    /\ execStatus = [e \in ExecIds |-> "none"]
    /\ execDevice = [e \in ExecIds |-> ""]
    /\ nExec = 0
    /\ deviceLock = [d \in Devices |-> FALSE]
    /\ calls = [c \in CallIds |-> NoCall]
    /\ nCalls = 0

ActiveOn(d) == {e \in ExecIds : execDevice[e] = d /\ execStatus[e] \in ActiveStatuses}

\* A lock that is never seen as taken: start() without device exclusivity.
DeviceFreeAlways(d) == TRUE

\* The per-device-serial lock is free.
DeviceFree(d) == ~deviceLock[d]

\* start(command, device_serial) is called; calls for one serial may overlap.
StartBegin(d) ==
    /\ nCalls < MaxCalls
    /\ nCalls' = nCalls + 1
    /\ calls' = [calls EXCEPT ![nCalls + 1] = [NoCall EXCEPT !.pc = "acquire", !.device = d]]
    /\ UNCHANGED <<execStatus, execDevice, nExec, deviceLock, notEngine>>

\* The lock is acquired atomically (test and set in one step); a taken lock
\* fails the call with DeviceBusy.
StartAcquire(c) ==
    /\ calls[c].pc = "acquire"
    /\ LET d == calls[c].device
           saw == ActiveOn(d) # {}
       IN IF DeviceFree(d)
            THEN /\ deviceLock' = [deviceLock EXCEPT ![d] = TRUE]
                 /\ calls' = [calls EXCEPT ![c].pc = "create", ![c].sawActive = saw]
            ELSE /\ calls' = [calls EXCEPT ![c].pc = "done", ![c].result = "DeviceBusy",
                                           ![c].sawActive = saw]
                 /\ UNCHANGED deviceLock
    /\ UNCHANGED <<execStatus, execDevice, nExec, nCalls, notEngine>>

\* The Execution is created in PENDING.
CreateExecution(c) ==
    /\ calls[c].pc = "create"
    /\ nExec' = nExec + 1
    /\ execStatus' = [execStatus EXCEPT ![nExec + 1] = "pending"]
    /\ execDevice' = [execDevice EXCEPT ![nExec + 1] = calls[c].device]
    /\ calls' = [calls EXCEPT ![c].pc = "run", ![c].created = nExec + 1]
    /\ UNCHANGED <<deviceLock, nCalls, notEngine>>

\* PENDING -> RUNNING; start() returns.
BeginRun(c) ==
    /\ calls[c].pc = "run"
    /\ calls' = [calls EXCEPT ![c].pc = "done", ![c].result = "started"]
    /\ execStatus' = [execStatus EXCEPT ![calls[c].created] =
                         IF @ = "pending" THEN "running" ELSE @]
    /\ UNCHANGED <<execDevice, nExec, deviceLock, nCalls, notEngine>>

\* RUNNING -> PAUSED_SENSITIVE or PAUSED_TAKEOVER.
Pause(e, reason) ==
    /\ execStatus[e] = "running"
    /\ execStatus' = [execStatus EXCEPT ![e] = reason]
    /\ UNCHANGED <<execDevice, nExec, deviceLock, calls, nCalls, notEngine>>

\* resume(execution_id): valid only from a paused state.
Resume(e) ==
    /\ execStatus[e] \in {"paused_sensitive", "paused_takeover"}
    /\ execStatus' = [execStatus EXCEPT ![e] = "running"]
    /\ UNCHANGED <<execDevice, nExec, deviceLock, calls, nCalls, notEngine>>

\* A terminal transition releases the device's lock.
Terminate(e, status) ==
    /\ execStatus' = [execStatus EXCEPT ![e] = status]
    /\ deviceLock' = [deviceLock EXCEPT ![execDevice[e]] = FALSE]
    /\ UNCHANGED <<execDevice, nExec, calls, nCalls, notEngine>>

\* RUNNING -> SUCCESS or FAILED.
Finish(e, status) ==
    /\ execStatus[e] = "running"
    /\ Terminate(e, status)

\* cancel(execution_id): accepted from any non-terminal state.
Cancel(e) ==
    /\ execStatus[e] \in ActiveStatuses \cup {"pending"}
    /\ Terminate(e, "failed")

NextEngine ==
    \/ \E d \in Devices : StartBegin(d)
    \/ \E c \in CallIds : StartAcquire(c)
    \/ \E c \in CallIds : CreateExecution(c)
    \/ \E c \in CallIds : BeginRun(c)
    \/ \E e \in ExecIds, r \in {"paused_sensitive", "paused_takeover"} : Pause(e, r)
    \/ \E e \in ExecIds : Resume(e)
    \/ \E e \in ExecIds, st \in TerminalStatuses : Finish(e, st)
    \/ \E e \in ExecIds : Cancel(e)

(***************************************************************************)
(* ScreenshotViewer: the polling fallback of the live screen               *)
(***************************************************************************)

ViewerTimerIds == 1..MaxViewerTimers

\* updateImage() of effect run e (lines 27-32): it sets the image URL unless
\* the component is marked unmounted.
UpdateImage(ref, e) == IF ref THEN e ELSE imageUrl
CountUpdate(ref) == IF ref THEN nImageUpdates + 1 ELSE nImageUpdates

\* scheduleNext() of effect run e (lines 38-44): it arms one timer and keeps
\* its id in timeoutRef, unless the component is marked unmounted.
ScheduleNext(ref, T, e) ==
    /\ viewerTimers' = IF ref THEN T \cup {[id |-> nViewerTimers + 1, effect |-> e]} ELSE T
    /\ timeoutRef' = IF ref THEN nViewerTimers + 1 ELSE timeoutRef
    /\ nViewerTimers' = IF ref THEN nViewerTimers + 1 ELSE nViewerTimers

\* Mutation of ClearedTimers: the cleanup forgets clearTimeout.
ClearedTimersNone(T, ref) == T

\* Lines 49-52: the timers left pending by clearTimeout(timeoutRef.current).
ClearedTimers(T, ref) == {t \in T : t.id # ref}

\* Initial state: the component has mounted and its effect has run once
\* (lines 24-45): the first image is requested and the first timer armed.
InitViewer ==
    /\ viewerMounted = TRUE
    /\ viewerMountedRef = TRUE
    /\ timeoutRef = 1
    /\ viewerTimers = {[id |-> 1, effect |-> 1]}
    /\ nViewerTimers = 1
    /\ viewerEffect = 1
    /\ imageUrl = 1
    /\ nImageUpdates = 1
    /\ nLoadErrors = 0

\* A refresh timer expires (lines 40-43): updateImage(); scheduleNext(), both
\* of the effect run that armed the timer.
ViewerTimerFires(t) ==
    /\ t \in viewerTimers
    /\ nViewerTimers < MaxViewerTimers
    /\ imageUrl' = UpdateImage(viewerMountedRef, t.effect)
    /\ nImageUpdates' = CountUpdate(viewerMountedRef)
    /\ ScheduleNext(viewerMountedRef, viewerTimers \ {t}, t.effect)
    /\ UNCHANGED <<viewerMounted, viewerMountedRef, viewerEffect, nLoadErrors, notViewer>>

\* deviceId or refreshInterval changes (line 54): the cleanup of the previous
\* run (lines 47-53), then the effect again (lines 25-45).
ViewerPropsChange ==
    /\ viewerMounted
    /\ viewerEffect < MaxViewerEffects
    /\ nViewerTimers < MaxViewerTimers
    /\ viewerEffect' = viewerEffect + 1
    /\ viewerMountedRef' = TRUE
    /\ imageUrl' = UpdateImage(TRUE, viewerEffect + 1)
    /\ nImageUpdates' = CountUpdate(TRUE)
    /\ ScheduleNext(TRUE, ClearedTimers(viewerTimers, timeoutRef), viewerEffect + 1)
    /\ UNCHANGED <<viewerMounted, nLoadErrors, notViewer>>

\* The component unmounts: the cleanup (lines 47-53).
ViewerUnmount ==
    /\ viewerMounted
    /\ viewerMounted' = FALSE
    /\ viewerMountedRef' = FALSE
    /\ viewerTimers' = ClearedTimers(viewerTimers, timeoutRef)
    /\ timeoutRef' = 0
    /\ UNCHANGED <<nViewerTimers, viewerEffect, imageUrl, nImageUpdates, nLoadErrors,
                   notViewer>>

\* The image fails to load (handleError, lines 62-64): nothing is changed.
ViewerImageError ==
    /\ viewerMounted
    /\ nLoadErrors < MaxLoadErrors
    /\ nLoadErrors' = nLoadErrors + 1
    /\ UNCHANGED <<viewerMounted, viewerMountedRef, timeoutRef, viewerTimers,
                   nViewerTimers, viewerEffect, imageUrl, nImageUpdates, notViewer>>

NextViewer ==
    \/ \E t \in viewerTimers : ViewerTimerFires(t)
    \/ ViewerPropsChange
    \/ ViewerUnmount
    \/ ViewerImageError

(***************************************************************************)
(* Task form (TaskList of pages/Tasks.tsx)                                 *)
(*                                                                         *)
(* Of formData the fields the notification and schedule handlers touch are *)
(* modelled.  The server stores what a create or update request carries;   *)
(* its code is not part of the sources.                                    *)
(***************************************************************************)

TaskIds == 1..2
\* With the tasks created from the form.
AllTaskIds == 1..(2 + MaxSubmits)
Channels == {1, 2, 3}
\* The channels with enabled = true: the ones that have a checkbox (line 875).
EnabledChannels == {1, 2}
Crons == {"0 8 * * *", "*/30 * * * *"}
Zones == {"Asia/Shanghai", "Europe/Paris"}

\* notification_channel_ids: null, or a list of channel ids.
IdsNull == [null |-> TRUE, list |-> <<>>]
IdsList(L) == [null |-> FALSE, list |-> L]

NoTask == [exists |-> FALSE, cron_expression |-> "", notify_on_success |-> FALSE,
           notify_on_failure |-> FALSE, notification_channel_ids |-> IdsNull,
           timezone |-> ""]

\* The form as openCreateDialog and selectTemplate fill it (lines 362-377,
\* 386-401).
DefaultForm ==
    [cron_expression |-> "0 8 * * *", notify_on_success |-> FALSE,
     notify_on_failure |-> TRUE, notification_channel_ids |-> IdsNull]

\* The stored tasks at the start: task 1 names a channel that has since been
\* disabled, task 2 an empty list (types/index.ts line 10: empty or null
\* stands for all enabled channels).
InitForm ==
    /\ isDialogOpen = FALSE
    /\ editingTask = 0
    /\ formData = DefaultForm
    /\ tasks = [t \in AllTaskIds |->
                  IF t > 2 THEN NoTask
                  ELSE IF t = 1
                    THEN [exists |-> TRUE, cron_expression |-> "*/30 * * * *",
                          notify_on_success |-> TRUE, notify_on_failure |-> TRUE,
                          notification_channel_ids |-> IdsList(<<3, 1>>),
                          timezone |-> "Asia/Shanghai"]
                    ELSE [exists |-> TRUE, cron_expression |-> "0 8 * * *",
                          notify_on_success |-> FALSE, notify_on_failure |-> TRUE,
                          notification_channel_ids |-> IdsList(<<>>),
                          timezone |-> "Europe/Paris"]]
    /\ browserZone = "Asia/Shanghai"
    /\ taskRequests = <<>>
    /\ taskResponses = 0
    /\ nSubmits = 0
    /\ nToggles = 0

\* openCreateDialog (lines 360-379) and selectTemplate (lines 385-404).
OpenCreateDialog ==
    /\ ~isDialogOpen
    /\ editingTask' = 0
    /\ formData' = DefaultForm
    /\ isDialogOpen' = TRUE
    /\ nToggles' = 0
    /\ UNCHANGED <<tasks, browserZone, taskRequests, taskResponses, nSubmits, notForm>>

\* openEditDialog(task) (lines 406-425): the form takes the task's fields;
\* the task's timezone is not among them.
OpenEditDialog(t) ==
    /\ ~isDialogOpen
    /\ tasks[t].exists
    /\ editingTask' = t
    /\ formData' = [cron_expression |-> tasks[t].cron_expression,
                    notify_on_success |-> tasks[t].notify_on_success,
                    notify_on_failure |-> tasks[t].notify_on_failure,
                    notification_channel_ids |-> tasks[t].notification_channel_ids]
    /\ isDialogOpen' = TRUE
    /\ nToggles' = 0
    /\ UNCHANGED <<tasks, browserZone, taskRequests, taskResponses, nSubmits, notForm>>

\* closeDialog (lines 427-430): the cancel button.
CloseDialog ==
    /\ isDialogOpen
    /\ isDialogOpen' = FALSE
    /\ editingTask' = 0
    /\ UNCHANGED <<formData, tasks, browserZone, taskRequests, taskResponses, nSubmits,
                   nToggles, notForm>>

\* A cron preset or the cron input changes cron_expression (lines 671-687).
SetCron(c) ==
    /\ isDialogOpen
    /\ c # formData.cron_expression
    /\ formData' = [formData EXCEPT !.cron_expression = c]
    /\ UNCHANGED <<isDialogOpen, editingTask, tasks, browserZone, taskRequests,
                   taskResponses, nSubmits, nToggles, notForm>>

\* The notify_on_success switch (lines 842-847).
ToggleNotifySuccess ==
    /\ isDialogOpen
    /\ formData' = [formData EXCEPT !.notify_on_success = ~@]
    /\ UNCHANGED <<isDialogOpen, editingTask, tasks, browserZone, taskRequests,
                   taskResponses, nSubmits, nToggles, notForm>>

\* The notify_on_failure switch (lines 853-858).
ToggleNotifyFailure ==
    /\ isDialogOpen
    /\ formData' = [formData EXCEPT !.notify_on_failure = ~@]
    /\ UNCHANGED <<isDialogOpen, editingTask, tasks, browserZone, taskRequests,
                   taskResponses, nSubmits, nToggles, notForm>>

\* currentIds.filter(id => id !== channel) (line 892).
Without(L, c) == SelectSeq(L, LAMBDA x : x # c)

\* Mutation of AfterUncheck: the list is kept also when it is empty.
AfterUncheckKeepsEmpty(newIds) == IdsList(newIds)

\* Lines 893-897: newIds.length > 0 ? newIds : null.
AfterUncheck(newIds) == IF Len(newIds) > 0 THEN IdsList(newIds) ELSE IdsNull

\* The checkbox of channel c shows as checked (lines 880-883).
IsChecked(c) ==
    /\ ~formData.notification_channel_ids.null
    /\ \E j \in DOMAIN formData.notification_channel_ids.list :
          formData.notification_channel_ids.list[j] = c

\* The checkbox of an enabled channel is clicked (lines 884-899); the
\* checkboxes are shown while a notification switch is on (lines 863-864).
OnCheckedChange(c) ==
    /\ isDialogOpen
    /\ formData.notify_on_success \/ formData.notify_on_failure
    /\ c \in EnabledChannels
    /\ nToggles < MaxToggles
    /\ nToggles' = nToggles + 1
    /\ LET currentIds == formData.notification_channel_ids.list
       IN formData' = [formData EXCEPT !.notification_channel_ids =
                          IF ~IsChecked(c)
                            THEN IdsList(Append(currentIds, c))
                            ELSE AfterUncheck(Without(currentIds, c))]
    /\ UNCHANGED <<isDialogOpen, editingTask, tasks, browserZone, taskRequests,
                   taskResponses, nSubmits, notForm>>

\* Mutation of SubmittedTimezone: the task's stored zone is sent back.
SubmittedTimezoneOfTask(t) == IF t = 0 THEN browserZone ELSE tasks[t].timezone

\* Line 437: Intl.DateTimeFormat().resolvedOptions().timeZone.
SubmittedTimezone(t) == browserZone

\* handleSubmit (lines 432-444).
HandleSubmit ==
    /\ isDialogOpen
    /\ nSubmits < MaxSubmits
    /\ nSubmits' = nSubmits + 1
    /\ taskRequests' = Append(taskRequests,
          [kind |-> IF editingTask # 0 THEN "update" ELSE "create",
           id |-> editingTask,
           data |-> formData,
           timezone |-> SubmittedTimezone(editingTask)])
    /\ UNCHANGED <<isDialogOpen, editingTask, formData, tasks, browserZone,
                   taskResponses, nToggles, notForm>>

\* The server stores the oldest request: every field it carries, the time
\* zone included.
ServerStoresTask ==
    /\ taskRequests # <<>>
    /\ LET r == Head(taskRequests)
           free == {t \in AllTaskIds : ~tasks[t].exists}
           id == IF r.kind = "update" THEN r.id
                 ELSE IF free = {} THEN 0 ELSE CHOOSE t \in free : \A u \in free : t <= u
           stored == [exists |-> TRUE,
                      cron_expression |-> r.data.cron_expression,
                      notify_on_success |-> r.data.notify_on_success,
                      notify_on_failure |-> r.data.notify_on_failure,
                      notification_channel_ids |-> r.data.notification_channel_ids,
                      timezone |-> r.timezone]
       IN tasks' = IF id = 0 THEN tasks ELSE [tasks EXCEPT ![id] = stored]
    /\ taskRequests' = Tail(taskRequests)
    /\ taskResponses' = taskResponses + 1
    /\ UNCHANGED <<isDialogOpen, editingTask, formData, browserZone, nSubmits,
                   nToggles, notForm>>

\* onSuccess of createMutation / updateMutation (lines 328-341): closeDialog().
MutationSuccess ==
    /\ taskResponses > 0
    /\ taskResponses' = taskResponses - 1
    /\ isDialogOpen' = FALSE
    /\ editingTask' = 0
    /\ UNCHANGED <<formData, tasks, browserZone, taskRequests, nSubmits, nToggles,
                   notForm>>

\* The browser's time zone changes (the system setting, or the form is used
\* from another browser).
BrowserZoneChanges(z) ==
    /\ z # browserZone
    /\ browserZone' = z
    /\ UNCHANGED <<isDialogOpen, editingTask, formData, tasks, taskRequests,
                   taskResponses, nSubmits, nToggles, notForm>>

\* The notification part of the form.
NextForm ==
    \/ OpenCreateDialog
    \/ \E t \in AllTaskIds : OpenEditDialog(t)
    \/ CloseDialog
    \/ ToggleNotifySuccess
    \/ ToggleNotifyFailure
    \/ \E c \in Channels : OnCheckedChange(c)

\* The schedule part of the form and its submission.
NextSubmit ==
    \/ OpenCreateDialog
    \/ \E t \in AllTaskIds : OpenEditDialog(t)
    \/ CloseDialog
    \/ \E c \in Crons : SetCron(c)
    \/ HandleSubmit
    \/ ServerStoresTask
    \/ MutationSuccess
    \/ \E z \in Zones : BrowserZoneChanges(z)

(***************************************************************************)
(* Execution history list (ExecutionHistory of pages/Tasks.tsx)            *)
(***************************************************************************)

\* Line 75.
pageSize == 10

\* Math.ceil(n / pageSize) for n >= 0.
Ceil(n) == (n + pageSize - 1) \div pageSize

\* Lines 104-105: totalCount = countData?.count || 0 and totalPages.
totalCount == countData
totalPages == Ceil(totalCount)

Min(a, b) == IF a < b THEN a ELSE b
Max(a, b) == IF a > b THEN a ELSE b

\* The server holds some records at the start; the count is not fetched yet.
InitHistory ==
    /\ page = 0
    /\ countData = 0
    /\ records = pageSize + 1
    /\ clearing = FALSE

\* The executions-count query is fetched or, after an invalidation, fetched
\* again (lines 77-80).
CountFetched ==
    /\ countData # records
    /\ countData' = records
    /\ UNCHANGED <<page, records, clearing, notHistory>>

\* The "next" button (lines 270-273), shown while totalPages > 1 (line 257).
NextPage ==
    /\ totalPages > 1
    /\ ~(page >= totalPages - 1)
    /\ page' = Min(totalPages - 1, page + 1)
    /\ UNCHANGED <<countData, records, clearing, notHistory>>

\* The "previous" button (lines 259-264).
PrevPage ==
    /\ totalPages > 1
    /\ page # 0
    /\ page' = Max(0, page - 1)
    /\ UNCHANGED <<countData, records, clearing, notHistory>>

\* One record listed on the current page is deleted: the server removes it
\* and onSuccess of deleteMutation runs (lines 87-93), which invalidates the
\* queries and leaves the page index as it is.
DeleteExecution ==
    /\ records > page * pageSize
    /\ records' = records - 1
    /\ UNCHANGED <<page, countData, clearing, notHistory>>

\* clearAllMutation is sent and the server removes every record.
ClearAllSent ==
    /\ ~clearing
    /\ records > 0
    /\ records' = 0
    /\ clearing' = TRUE
    /\ UNCHANGED <<page, countData, notHistory>>

\* onSuccess of clearAllMutation (lines 95-102): setPage(0).
ClearAllSuccess ==
    /\ clearing
    /\ clearing' = FALSE
    /\ page' = 0
    /\ UNCHANGED <<countData, records, notHistory>>

\* A run creates an execution record.
RecordAdded ==
    /\ records < MaxRecords
    /\ records' = records + 1
    /\ UNCHANGED <<page, countData, clearing, notHistory>>

NextHistory ==
    \/ CountFetched
    \/ NextPage
    \/ PrevPage
    \/ DeleteExecution
    \/ ClearAllSent
    \/ ClearAllSuccess
    \/ RecordAdded


(***************************************************************************)
(* Debug stream parser (the read loop of Debug.executeStream, lines 83-241) *)
(*                                                                         *)
(* The response body is a sequence of bytes.  A text is a sequence of      *)
(* units: the halves of the prefixes `event: ` and `data: `, the name of a *)
(* type, the line feed "nl", and "m", a character of a message outside     *)
(* ASCII that UTF-8 encodes as the two bytes "m1" "m2"; every other unit   *)
(* is its own encoding.  No unit is white space, so trim() (line 98)       *)
(* removes nothing.                                                        *)
(***************************************************************************)

EventPrefix == <<"eve", "nt: ">>
DataPrefix == <<"da", "ta: ">>

\* The types a data record carries; "none" is a payload without a type field.
DataTypes == {"none", "token", "step", "sensitive", "takeover", "done", "error"}

\* The lines the server writes: event lines, data lines with their payload
\* (a step with a message of one character), and the blank line that ends an
\* SSE record.  sensitive, takeover and error records differ from the step and
\* done records written here in their type only.
Lines ==
    {EventPrefix \o <<"token">>, EventPrefix \o <<"step">>, <<>>}
      \cup {DataPrefix \o <<t>> : t \in {"none", "token", "done"}}
      \cup {DataPrefix \o <<"step", "m">>}

\* The sizes of a chunk: up to the bytes of MaxLines lines of six bytes, the
\* longest line written.
ChunkSizes == 1..(6 * MaxLines)

\* The line a body can end with when it is cut before the line feed.
Tails == {DataPrefix \o <<"done">>}

\* UTF-8 encoding of a text.
RECURSIVE Encode(_)
Encode(text) ==
    IF text = <<>> THEN <<>>
    ELSE (IF Head(text) = "m" THEN <<"m1", "m2">> ELSE <<Head(text)>>)
           \o Encode(Tail(text))

\* decoder.decode(value, {stream: true}) (line 91): the bytes of the chunk
\* are decoded after the incomplete character kept from the chunk before, an
\* incomplete character at the end of the chunk is kept for the next call, and
\* a malformed sequence decodes to the replacement character "?".
RECURSIVE Decode(_, _, _)
Decode(pending, bytes, out) ==
    IF bytes = <<>> THEN [text |-> out, pending |-> pending]
    ELSE IF pending # <<>>
         THEN IF Head(bytes) = "m2"
              THEN Decode(<<>>, Tail(bytes), Append(out, "m"))
              ELSE Decode(<<>>, bytes, Append(out, "?"))
    ELSE IF Head(bytes) = "m1" THEN Decode(<<"m1">>, Tail(bytes), out)
    ELSE IF Head(bytes) = "m2" THEN Decode(<<>>, Tail(bytes), Append(out, "?"))
    ELSE Decode(<<>>, Tail(bytes), Append(out, Head(bytes)))

\* buffer.split('\n') (line 92): the pieces between the line feeds, one more
\* than there are line feeds.
RECURSIVE Split(_, _, _)
Split(text, piece, out) ==
    IF text = <<>> THEN Append(out, piece)
    ELSE IF Head(text) = "nl" THEN Split(Tail(text), <<>>, Append(out, piece))
    ELSE Split(Tail(text), Append(piece, Head(text)), out)

\* Mutation of Remainder: the text after the last line feed is thrown away.
RemainderDropped(pieces) == <<>>

\* lines.pop() || '' (line 93): the text after the last line feed.
Remainder(pieces) == pieces[Len(pieces)]

\* line.startsWith(prefix) (lines 97 and 102).
StartsWith(line, prefix) ==
    /\ Len(line) >= Len(prefix)
    /\ SubSeq(line, 1, Len(prefix)) = prefix

\* line.slice(7) and line.slice(6): the line without its prefix.
Slice(line, prefix) == SubSeq(line, Len(prefix) + 1, Len(line))

\* JSON.parse (line 104) succeeds on a payload made of a type followed by the
\* characters of its message, and throws on anything else.
IsJson(payload) ==
    /\ payload # <<>>
    /\ Head(payload) \in DataTypes
    /\ \A i \in 2..Len(payload) : payload[i] \in {"m", "?"}

\* The branch of lines 107-234 taken for a parsed record: the token branch
\* when the event type last seen or the type of the record is token, else the
\* branch of the type of the record ("none" also for a record no branch
\* matches).
Branch(eventType, type) ==
    IF eventType = <<"token">> \/ type = "token" THEN "token"
    ELSE IF type \in {"step", "sensitive", "takeover", "done", "error"} THEN type
    ELSE "none"

\* The state of one executeStream call in its read loop.  own and log are
\* history: own holds while an event line was read since the last data line,
\* and log lists the records dispatched, each with the branch taken.
NewParser ==
    [pending |-> <<>>, buffer |-> <<>>, eventType |-> <<>>, own |-> FALSE,
     log |-> <<>>, returned |-> FALSE, ended |-> FALSE]

\* The body of the loop over the lines of a chunk (lines 95-238) for one line.
\* An event line sets eventType (lines 97-100).  A data line is parsed and
\* dispatched; done and error return from executeStream (lines 208, 219 and
\* 233); a payload that does not parse is ignored (lines 235-237).  Any other
\* line is skipped.
ProcessLine(p, line) ==
    IF StartsWith(line, EventPrefix)
    THEN [p EXCEPT !.eventType = Slice(line, EventPrefix), !.own = TRUE]
    ELSE IF StartsWith(line, DataPrefix)
    THEN LET payload == Slice(line, DataPrefix) IN
         IF IsJson(payload)
         THEN LET b == Branch(p.eventType, Head(payload)) IN
              [p EXCEPT !.log = Append(@, [branch |-> b, type |-> Head(payload),
                                          message |-> Tail(payload), own |-> p.own]),
                        !.own = FALSE,
                        !.returned = (b \in {"done", "error"})]
         ELSE [p EXCEPT !.own = FALSE]
    ELSE p

\* for (const line of lines) (line 95), left by the return of done and error.
RECURSIVE ProcessLines(_, _)
ProcessLines(p, lines) ==
    IF lines = <<>> \/ p.returned THEN p
    ELSE ProcessLines(ProcessLine(p, Head(lines)), Tail(lines))

\* Lines 91-238 for one chunk read.
Feed(p, chunk) ==
    LET d == Decode(p.pending, chunk, <<>>)
        pieces == Split(p.buffer \o d.text, <<>>, <<>>)
    IN  ProcessLines([p EXCEPT !.pending = d.pending, !.buffer = Remainder(pieces)],
                     SubSeq(pieces, 1, Len(pieces) - 1))

InitParser ==
    /\ wire = <<>>
    /\ consumed = <<>>
    /\ streamClosed = FALSE
    /\ nLines = 0
    /\ parser = NewParser
    /\ splitSeen = {}

\* The server writes one line and its line feed.
ServerWritesLine(l) ==
    /\ ~streamClosed
    /\ nLines < MaxLines
    /\ wire' = wire \o Encode(Append(l, "nl"))
    /\ nLines' = nLines + 1
    /\ UNCHANGED <<consumed, streamClosed, parser, splitSeen, notParser>>

\* The server writes a last line without a line feed and closes the body.
ServerWritesTail(l) ==
    /\ ~streamClosed
    /\ nLines < MaxLines
    /\ wire' = wire \o Encode(l)
    /\ nLines' = nLines + 1
    /\ streamClosed' = TRUE
    /\ UNCHANGED <<consumed, parser, splitSeen, notParser>>

\* The server closes the body.
ServerCloses ==
    /\ ~streamClosed
    /\ streamClosed' = TRUE
    /\ UNCHANGED <<wire, consumed, nLines, parser, splitSeen, notParser>>

\* reader.read() (line 88) resolves with the first k bytes written and not
\* yet read, and the chunk is processed (lines 91-238).
ReaderReads(k) ==
    /\ ~parser.returned
    /\ ~parser.ended
    /\ k \in 1..Len(wire)
    /\ parser' = Feed(parser, SubSeq(wire, 1, k))
    /\ consumed' = consumed \o SubSeq(wire, 1, k)
    /\ wire' = SubSeq(wire, k + 1, Len(wire))
    /\ splitSeen' = splitSeen
                      \cup (IF parser'.buffer # <<>> THEN {"line"} ELSE {})
                      \cup (IF parser'.pending # <<>> THEN {"character"} ELSE {})
    /\ UNCHANGED <<streamClosed, nLines, notParser>>

\* reader.read() resolves with done: the loop is left (line 89) and the call
\* ends (line 241).
ReaderDone ==
    /\ ~parser.returned
    /\ ~parser.ended
    /\ streamClosed
    /\ wire = <<>>
    /\ parser' = [parser EXCEPT !.ended = TRUE]
    /\ UNCHANGED <<wire, consumed, streamClosed, nLines, splitSeen, notParser>>

NextParser ==
    \/ \E l \in Lines : ServerWritesLine(l)
    \/ \E l \in Tails : ServerWritesTail(l)
    \/ ServerCloses
    \/ \E k \in ChunkSizes : ReaderReads(k)
    \/ ReaderDone


(***************************************************************************)
(* Device preview of the Debug and Execution detail pages: the switch      *)
(* between ScrcpyPlayer and its fallback (Debug.tsx lines 36-37, 412-437;  *)
(* ExecutionDetail.tsx lines 147-149, 247-255, 452-467)                    *)
(*                                                                         *)
(* One page is mounted at a time (App.tsx lines 26-35).  The state of a    *)
(* page that is not mounted is the state a mount starts from.              *)
(***************************************************************************)

Pages == {"debug", "detail"}
Routes == Pages \cup {"other"}
NoDevice == ""
NoPlayer == [key |-> -1, deviceId |-> NoDevice]

\* The ScrcpyPlayer element the mounted page renders: on the Debug page for
\* the active device while useFallback is false, keyed by streamKey (lines
\* 420-436); on the Execution detail page for stableDeviceId while the
\* execution is running and useFallback is false (lines 452-467).
Player ==
    IF route = "debug" /\ activeDevice # NoDevice /\ ~useFallback["debug"]
    THEN [key |-> streamKey, deviceId |-> activeDevice]
    ELSE IF route = "detail" /\ isRunning /\ stableDeviceId # NoDevice
              /\ ~useFallback["detail"]
    THEN [key |-> 0, deviceId |-> stableDeviceId]
    ELSE NoPlayer

InitPreview ==
    /\ route = "other"
    /\ activeDevice = NoDevice
    /\ useFallback = [p \in Pages |-> FALSE]
    /\ streamKey = 0
    /\ stableDeviceId = NoDevice
    /\ isRunning = FALSE
    /\ playerRendered = FALSE
    /\ sinceFallback = {}

\* The router shows another page: the page shown is unmounted and page r is
\* mounted with its initial state; b tells whether the execution shown by the
\* Execution detail page is running.
Navigate(r, b) ==
    /\ r # route
    /\ route' = r
    /\ useFallback' = [p \in Pages |-> FALSE]
    /\ streamKey' = 0
    /\ stableDeviceId' = NoDevice
    /\ isRunning' = (r = "detail" /\ b)
    /\ sinceFallback' = {}
    /\ UNCHANGED <<activeDevice, notPreview>>
    /\ playerRendered' = (Player' # NoPlayer)

\* The devices query (Debug.tsx lines 46-52, refetched every 5 s) finds
\* another first device with status 'device', or none.
ActiveDeviceChanges(d) ==
    /\ d # activeDevice
    /\ activeDevice' = d
    /\ sinceFallback' = IF route = "debug" /\ useFallback["debug"]
                        THEN sinceFallback \cup {"device"} ELSE sinceFallback
    /\ UNCHANGED <<route, useFallback, streamKey, stableDeviceId, isRunning, notPreview>>
    /\ playerRendered' = (playerRendered \/ Player' # NoPlayer)

\* Mutation of RefreshClicked: the refresh button also leaves fallback mode.
RefreshClickedRetries ==
    /\ route = "debug"
    /\ activeDevice # NoDevice
    /\ streamKey < MaxRefreshes
    /\ streamKey' = streamKey + 1
    /\ useFallback' = [useFallback EXCEPT !["debug"] = FALSE]
    /\ sinceFallback' = IF useFallback["debug"]
                        THEN sinceFallback \cup {"refresh"} ELSE sinceFallback
    /\ UNCHANGED <<route, activeDevice, stableDeviceId, isRunning, notPreview>>
    /\ playerRendered' = (playerRendered \/ Player' # NoPlayer)

\* The refresh button of the Debug page, rendered while there is an active
\* device (lines 412-416): setStreamKey(k => k + 1).
RefreshClicked ==
    /\ route = "debug"
    /\ activeDevice # NoDevice
    /\ streamKey < MaxRefreshes
    /\ streamKey' = streamKey + 1
    /\ sinceFallback' = IF useFallback["debug"]
                        THEN sinceFallback \cup {"refresh"} ELSE sinceFallback
    /\ UNCHANGED <<route, activeDevice, useFallback, stableDeviceId, isRunning, notPreview>>
    /\ playerRendered' = (playerRendered \/ Player' # NoPlayer)

\* ExecutionDetail.tsx lines 247-255: the first active device found while
\* stableDeviceId is null becomes stableDeviceId.
StableDeviceSet ==
    /\ route = "detail"
    /\ stableDeviceId = NoDevice
    /\ activeDevice # NoDevice
    /\ stableDeviceId' = activeDevice
    /\ UNCHANGED <<route, activeDevice, useFallback, streamKey, isRunning, sinceFallback,
                   notPreview>>
    /\ playerRendered' = (playerRendered \/ Player' # NoPlayer)

\* ExecutionDetail.tsx line 304: the status of the execution or isStreaming
\* changes isRunning.
RunningChanges ==
    /\ route = "detail"
    /\ isRunning' = ~isRunning
    /\ sinceFallback' = IF useFallback["detail"]
                        THEN sinceFallback \cup {"running"} ELSE sinceFallback
    /\ UNCHANGED <<route, activeDevice, useFallback, streamKey, stableDeviceId, notPreview>>
    /\ playerRendered' = (playerRendered \/ Player' # NoPlayer)

\* A ScrcpyPlayer rendered by the mounted page invokes onFallback (Layout.tsx
\* lines 223, 306 and 326): setUseFallback(true) (Debug.tsx line 434,
\* ExecutionDetail.tsx line 465).  The player may be one the page has replaced
\* or removed since, whose timer or handler runs late.
PlayerSignalsFallback ==
    /\ route \in Pages
    /\ playerRendered
    /\ useFallback' = [useFallback EXCEPT ![route] = TRUE]
    /\ UNCHANGED <<route, activeDevice, streamKey, stableDeviceId, isRunning, playerRendered,
                   sinceFallback, notPreview>>

NextPreview ==
    \/ \E r \in Routes, b \in BOOLEAN : Navigate(r, b)
    \/ \E d \in Devices \cup {NoDevice} : ActiveDeviceChanges(d)
    \/ RefreshClicked
    \/ StableDeviceSet
    \/ RunningChanges
    \/ PlayerSignalsFallback

Init == InitPlayer /\ InitDebug /\ InitDetail /\ InitEngine /\ InitViewer /\ InitForm
          /\ InitHistory /\ InitParser /\ InitPreview

SpecDebug == Init /\ [][NextDebug]_vars

SpecEngine == Init /\ [][NextEngine]_vars

SpecDetail == Init /\ [][NextDetail]_vars


\* One page is shown at a time (the routes of App.tsx, lines 25-35): the
\* operator uses the Debug console or the execution detail page.
DebugPageUnused == nStreams = 0 /\ chatItems = <<>>
DetailPageUnused == execution = NoExecution

\* The streamed text of one segment, on either page: tokens and steps in any
\* order the engine may send them, up to the end of the segment.
NextText ==
    \/ \E c \in Commands : DetailPageUnused /\ nStreams = 0 /\ HandleSend(c)
    \/ \E i \in StreamIds : DetailPageUnused /\ FetchOk(i)
    \/ \E i \in StreamIds, n \in Steps, ph \in Phases : DetailPageUnused /\ OnToken(i, n, ph)
    \/ \E i \in StreamIds, n \in Steps : DetailPageUnused /\ OnStep(i, n)
    \/ \E i \in StreamIds, m \in BOOLEAN : DetailPageUnused /\ OnDone(i, m)
    \/ \E i \in StreamIds : DetailPageUnused /\ OnError(i)
    \/ DebugPageUnused /\ RunStarts
    \/ DebugPageUnused /\ RunProducesStep
    \/ \E n \in Steps, ph \in Phases : DebugPageUnused /\ RunSendsToken(n, ph)
    \/ DebugPageUnused /\ RunResendsStep
    \/ \E st \in {"success", "failed"} : DebugPageUnused /\ RunFinishes(st)
    \/ DebugPageUnused /\ QueryLoaded
    \/ DebugPageUnused /\ RunEffect
    \/ DebugPageUnused /\ DetailToken
    \/ DebugPageUnused /\ DetailStep
    \/ DebugPageUnused /\ DetailDone
    \/ DebugPageUnused /\ RefetchDone

SpecText == Init /\ [][NextText]_vars

\* One connection of a mounted player: the socket connects once, metadata
\* and video packets arrive, writes complete.
NextRelay ==
    \/ ConnectTimerFire
    \/ \E s \in Sockets : SocketConnect(s)
    \/ \E s \in Sockets : VideoMetadata(s)
    \/ \E k \in Sessions : RendererReady(k)
    \/ \E k \in Sessions : DecoderReady(k)
    \/ \E k \in Sessions : DecoderFails(k)
    \/ \E s \in Sockets, t \in PacketTypes : VideoData(s, t)
    \/ \E k \in Sessions : WriteDone(k)
    \/ \E t \in TimerIds : WatchdogFire(t)
    \/ Unmount

SpecRelay == Init /\ [][NextRelay]_vars

\* The whole life cycle of the player: reconnections, device changes,
\* unmount, with a short packet stream.
NextPlayer ==
    \/ ConnectTimerFire
    \/ DeviceIdChange
    \/ Unmount
    \/ \E s \in Sockets : SocketConnect(s)
    \/ \E s \in Sockets : SocketConnectError(s)
    \/ \E s \in Sockets : SocketDrop(s)
    \/ \E t \in TimerIds : WatchdogFire(t)
    \/ \E s \in Sockets : VideoMetadata(s)
    \/ \E k \in Sessions : RendererReady(k)
    \/ \E k \in Sessions : DecoderReady(k)
    \/ \E k \in Sessions : DecoderFails(k)
    \/ \E s \in Sockets, t \in PacketTypes : nPkts < MaxLifePackets /\ VideoData(s, t)
    \/ \E k \in Sessions : WriteDone(k)

SpecPlayer == Init /\ [][NextPlayer]_vars

SpecViewer == Init /\ [][NextViewer]_vars

SpecForm == Init /\ [][NextForm]_vars

SpecSubmit == Init /\ [][NextSubmit]_vars

SpecHistory == Init /\ [][NextHistory]_vars

SpecParser == Init /\ [][NextParser]_vars

SpecPreview == Init /\ [][NextPreview]_vars

(***************************************************************************)
(* Properties of the live screen relay (ScrcpyPlayer)                      *)
(***************************************************************************)

\* The positions of sequence L holding a packet satisfying test.
IsData(p) == p.t = "data"
IsConfiguration(p) == p.t = "configuration"

\* How often packet number n occurs in sequence L.
Occurrences(L, n) == Cardinality({i \in DOMAIN L : L[i].n = n})

\* The arrival number of the first configuration packet written to decoder k
\* (0 when none was written).
FirstConfiguration(k) ==
    IF \E i \in DOMAIN wlog[k] : IsConfiguration(wlog[k][i])
      THEN wlog[k][CHOOSE i \in DOMAIN wlog[k] :
                      /\ IsConfiguration(wlog[k][i])
                      /\ \A j \in 1..(i - 1) : ~IsConfiguration(wlog[k][j])].n
      ELSE 0

\* C1: the data packets that arrived before the first configuration packet are
\* written in arrival order right after it and before any data packet that
\* arrived after it, under every interleaving of the handlers: in no write log
\* does a data packet that arrived after the first configuration precede one
\* that arrived before it, nor do two early packets appear out of arrival order.
C1_FlushedInOrderBeforeLaterData ==
    \A k \in Sessions : \A i, j \in DOMAIN wlog[k] :
        (/\ i < j
         /\ IsData(wlog[k][i]) /\ IsData(wlog[k][j])
         /\ wlog[k][j].n < FirstConfiguration(k))
        => wlog[k][i].n < wlog[k][j].n

\* C2: no data packet is written to a decoder before a configuration packet
\* has been written to it; a data packet handled while the session has seen no
\* configuration is only queued (nothing of it is in the write log).
C2_NoDataBeforeConfiguration ==
    \A k \in Sessions :
        /\ \A j \in DOMAIN wlog[k] :
              IsData(wlog[k][j]) => \E i \in 1..(j - 1) : IsConfiguration(wlog[k][i])
        /\ ~sess[k].configurationPacketSent =>
              /\ wlog[k] = <<>>
              /\ \A n \in seen[k] : Occurrences(sess[k].pendingDataPackets, n) = 1

\* C2 witness: data packets were queued before the configuration and flushed
\* after it, and a later data packet was written through.
C2_Witness ==
    \E k \in Sessions :
        /\ sess[k].configurationPacketSent
        /\ \E i, j \in DOMAIN wlog[k] :
              /\ IsData(wlog[k][i]) /\ wlog[k][i].n < FirstConfiguration(k)
              /\ IsData(wlog[k][j]) /\ wlog[k][j].n > FirstConfiguration(k)

\* A session is quiescent when none of its configuration handlers is suspended.
Quiescent(k) == \A f \in flushers : f.s # k

\* C3: every data packet a session's handler took is written to the decoder
\* exactly once, provided a configuration arrived: never twice, and once the
\* configuration has been seen and its flush is over, exactly once.
C3_EveryDataPacketWrittenExactlyOnce ==
    \A k \in Sessions : \A n \in seen[k] :
        /\ Occurrences(wlog[k], n) <= 1
        /\ (sess[k].configurationPacketSent /\ Quiescent(k))
              => Occurrences(wlog[k], n) = 1

\* C7: after a further video-metadata event every video-data packet is
\* processed by exactly one handler, the one of the current decoder.
C7_OneHandlerPerPacket ==
    /\ Cardinality(handledBy) <= 1
    /\ \A k \in handledBy : k \notin disposed

\* C6: a watchdog that expires with no video data handled since the socket
\* connected (since the timer was armed) closes the socket and signals
\* fallback: it never expires silently.
C6_WatchdogNeverExpiresSilently == ~silentExpiry

\* C8: while the player is disconnected (disconnect() has run and connect()
\* has not run since) nothing of a connection exists: no decoder, canvas,
\* open socket or watchdog timer, also not one made by a handler in flight.
C8_NothingRemainsAfterDisconnect ==
    socketRef = 0 =>
        /\ decoderRef = 0
        /\ created \subseteq disposed
        /\ canvasRef = 0
        /\ dom = {}
        /\ \A s \in Sockets : sockState[s] \in {"unused", "closed"}
        /\ fallbackTimerRef = 0
        /\ timers = {}

\* The step appends a request carrying the continuation instruction.
ContinuationSent ==
    /\ Len(requests') = Len(requests) + 1
    /\ requests'[Len(requests')].command = ContinueCommand

\* C4: every confirmation of a sensitive-action prompt sends exactly one
\* continuation request and puts the console back into the executing state.
C4_ConfirmAlwaysContinues ==
    [][HandleConfirmSensitive => (ContinuationSent /\ isExecuting')]_vars

\* C5: the continuation instruction is sent only while the run is paused for
\* a sensitive action: after a done with paused = true and pauseReason
\* "sensitive", and before any other command has been started.
C5_ContinuationOnlyWhilePausedSensitive ==
    [][ContinuationSent => pausedSensitive]_vars

\* C10: cancelling a sensitive-action prompt sends a cancellation to the
\* engine.
C10_CancelReachesEngine ==
    [][HandleCancelSensitive =>
          /\ Len(requests') = Len(requests) + 1
          /\ requests'[Len(requests')].kind = "cancel"]_vars

DetailIdle ==
    /\ execution # NoExecution
    /\ eventSource # "open"
    /\ ~refetching
    /\ ~effectPending

\* The page received an event of this kind on its stream.
DetailReceived(kind) == \E j \in DOMAIN detailLog : detailLog[j].kind = kind

DetailReceivedPausedDone ==
    \E j \in DOMAIN detailLog : detailLog[j].kind = "done" /\ detailLog[j].paused

\* The page shows the Execution as the engine has it: its status and all of
\* its steps.
DetailShowsOutcome ==
    /\ execution.status = runStatus
    /\ DetailSteps = StepSeq(runSteps)

\* C11: a page that received done with paused = true goes on following the
\* Execution: when the run has ended and the page is at rest, the page shows
\* the terminal status and the steps of the later segments.
C11_FollowsAfterPausedDone ==
    (DetailReceivedPausedDone /\ runStatus \in {"success", "failed"} /\ DetailIdle)
        => DetailShowsOutcome

\* C12: once the stream has reported error, the Execution the page shows is
\* marked failed and is not presented as running.
C12_ErrorMarksExecutionFailed ==
    DetailReceived("error") => (execution.status = "failed" /\ ~DetailIsRunning)

\* C13: a page opened while the Execution was pending or running, whose stream
\* neither paused nor failed, ends on the terminal status with every step.
C13_LateJoinEndsOnOutcome ==
    (/\ openedAs \in {"pending", "running"}
     /\ ~DetailReceivedPausedDone
     /\ ~DetailReceived("error") /\ ~DetailReceived("lost")
     /\ runStatus \in {"success", "failed"}
     /\ DetailIdle)
        => DetailShowsOutcome

\* C14: an observer reacts to every event kind of the vocabulary: a sensitive
\* or takeover event dispatched on the page's stream changes what the page
\* holds (the pause is recorded).
C14_PauseEventsAreRecorded ==
    [][(/\ eventSource = "open"
        /\ inbox # <<>>
        /\ Head(inbox).kind \in {"sensitive", "takeover"}
        /\ inbox' = Tail(inbox))
          => <<execution, streamSteps, isStreaming, streamingThinking, streamingAction>>'
               # <<execution, streamSteps, isStreaming, streamingThinking, streamingAction>>]_vars

\* The text a streaming buffer of one phase should hold after the events of
\* log L: the tokens of that phase among the latest tokens that agree on
\* their step index, counted from the last event of a kind in `emptying`.
ExpectedText(L, phase, emptying) ==
    LET cuts == {j \in DOMAIN L : L[j].kind \in emptying}
        cut == IF cuts = {} THEN 0 ELSE CHOOSE m \in cuts : \A x \in cuts : x <= m
        tok == {j \in DOMAIN L : j > cut /\ L[j].kind = "token"}
        last == CHOOSE m \in tok : \A x \in tok : x <= m
        run == {j \in tok : \A x \in tok : x >= j => L[x].step = L[last].step}
        idx == SelectSeq([j \in 1..Len(L) |-> j], LAMBDA j : j \in run /\ L[j].phase = phase)
    IN IF tok = {} THEN <<>> ELSE [i \in 1..Len(idx) |-> L[idx[i]].n]

\* The events at which each page empties its buffers.
DebugEmptying == {"start", "step", "done", "error"}
DetailEmptying == {"step", "done"}

\* C15: on both pages the thinking and action buffers hold exactly the tokens
\* of their phase received for the current step index since the buffers were
\* last emptied, in arrival order; text of two step indices is never mixed.
C15_BuffersHoldTokensOfCurrentStep ==
    /\ debugStreamingThinking = ExpectedText(debugLog, "thinking", DebugEmptying)
    /\ debugStreamingAction = ExpectedText(debugLog, "action", DebugEmptying)
    /\ streamingThinking = ExpectedText(detailLog, "thinking", DetailEmptying)
    /\ streamingAction = ExpectedText(detailLog, "action", DetailEmptying)

\* C15 witness: the detail page received a token of one step and then tokens
\* of both phases of another step, and shows the latter in both buffers.
C15_Witness ==
    /\ Len(detailLog) >= 3
    /\ \E j \in DOMAIN detailLog :
          detailLog[j].kind = "token" /\ detailLog[j].step # currentStep
    /\ streamingThinking # <<>>
    /\ streamingAction # <<>>

LastEvent(L) == L[Len(L)]

TokenAfterFinalization(L) ==
    /\ L # <<>>
    /\ LastEvent(L).kind = "token"
    /\ \E j \in DOMAIN L : L[j].kind = "step" /\ LastEvent(L).step <= L[j].step

\* C17: a token whose step index is at most that of a finalized step puts no
\* text back into the streaming buffers.
C17_FinalizedStepNotResurrected ==
    /\ TokenAfterFinalization(debugLog) =>
          (debugStreamingThinking = <<>> /\ debugStreamingAction = <<>>)
    /\ TokenAfterFinalization(detailLog) =>
          (streamingThinking = <<>> /\ streamingAction = <<>>)

\* C18: the step list of the detail page has strictly increasing indices.
C18_StepListStrictlyIncreasing ==
    \A j, k \in DOMAIN streamSteps : j < k => streamSteps[j] < streamSteps[k]

\* C18 witness: a step arrived twice and the list holds two steps.
C18_Witness ==
    /\ Len(streamSteps) >= 2
    /\ \E j, k \in DOMAIN detailLog :
          /\ j < k
          /\ detailLog[j].kind = "step" /\ detailLog[k].kind = "step"
          /\ detailLog[j].step = detailLog[k].step

\* The step dispatches one event on the Debug console: the event.
DebugDispatched == debugLog'[Len(debugLog')]

\* The step dispatches a `done` with paused = true on the Debug console.
DonePausedRead ==
    /\ Len(debugLog') = Len(debugLog) + 1
    /\ DebugDispatched.kind = "done"
    /\ DebugDispatched.paused

\* C19: on done with paused = true the console leaves the executing state,
\* appends no chat item, and keeps the segment's command exactly when the
\* pause is for a sensitive action (otherwise it records none).
C19_PausedDoneIsNotTheEnd ==
    [][DonePausedRead =>
          /\ isExecuting' = FALSE
          /\ chatItems' = chatItems
          /\ IF DebugDispatched.reason = "sensitive"
               THEN \E i \in StreamIds :
                       /\ streams[i].st = "read" /\ streams'[i].st = "closed"
                       /\ pendingCommand' = streams[i].command
               ELSE pendingCommand' = pendingCommand]_vars

\* C19 witness: a segment has just ended paused for a sensitive action; the
\* console is idle and holds the command.
C19_Witness ==
    /\ debugLog # <<>>
    /\ LastEvent(debugLog).kind = "done"
    /\ LastEvent(debugLog).paused
    /\ LastEvent(debugLog).reason = "sensitive"
    /\ ~isExecuting
    /\ pendingCommand \in Commands

\* The step dispatches a `takeover` event, or a `done` paused for a takeover.
TakeoverRead ==
    /\ Len(debugLog') = Len(debugLog) + 1
    /\ \/ DebugDispatched.kind = "takeover"
       \/ DebugDispatched.kind = "done" /\ DebugDispatched.reason = "takeover"

\* C20: a takeover pause opens no confirmation dialog and records no pending
\* command.
C20_TakeoverHasNoApproval ==
    [][TakeoverRead =>
          (sensitiveAction' = sensitiveAction /\ pendingCommand' = pendingCommand)]_vars

\* C20 witness: a segment has ended paused for a takeover, announced in the
\* chat; no dialog is open, no command is pending and the console is idle.
C20_Witness ==
    /\ debugLog # <<>>
    /\ LastEvent(debugLog).kind = "done"
    /\ LastEvent(debugLog).reason = "takeover"
    /\ \E j \in DOMAIN chatItems : chatItems[j].type = "takeover"
    /\ ~DialogOpen
    /\ pendingCommand = ""
    /\ ~isExecuting

\* The executeStream invocations that have started and not ended: awaiting
\* fetch or reading the response.
StreamsInFlight == {i \in StreamIds : streams[i].st \in {"fetch", "read"}}

\* C23: at any time at most one execute-stream request of the console has
\* started and not yet ended.
C23_AtMostOneStreamInFlight == Cardinality(StreamsInFlight) <= 1

\* C24: at most one watchdog timer of the player is pending at any time, and
\* none is pending once the player has unmounted (disconnect() has run).
C24_AtMostOneWatchdogPending ==
    /\ Cardinality(timers) <= 1
    /\ ~alive => timers = {}

\* The step ends executeStream invocation i.
StreamEnded(i) == streams[i].st \in {"fetch", "read"} /\ streams'[i].st = "closed"

\* C27: every step that ends a stream segment (done, error, end of the body,
\* a response that is not OK, a network exception) leaves isExecuting false,
\* and the console is never executing with no stream in flight.
C27_EndedSegmentLeavesExecuting ==
    /\ [](StreamsInFlight = {} => ~isExecuting)
    /\ [][(\E i \in StreamIds : StreamEnded(i)) => isExecuting' = FALSE]_vars

\* C27 witness: the second segment started has ended in the catch block or by
\* an error event; none is in flight and the console is not executing.
C27_Witness ==
    /\ nStreams >= 2
    /\ StreamsInFlight = {}
    /\ ~isExecuting
    /\ debugLog # <<>>
    /\ LastEvent(debugLog).kind = "error"

\* C21: while a ScreenshotViewer is mounted exactly one refresh timer is
\* pending and it is the one of the latest effect run, the image shown was
\* set by that run, image load errors change none of this, and once the
\* component has unmounted no timer is pending and the image is not updated.
C21_OneRefreshTimer ==
    /\ [](viewerMounted =>
            /\ Cardinality(viewerTimers) = 1
            /\ \A t \in viewerTimers : t.effect = viewerEffect /\ t.id = timeoutRef
            /\ imageUrl = viewerEffect)
    /\ [](~viewerMounted => viewerTimers = {})
    /\ [][~viewerMounted => nImageUpdates' = nImageUpdates]_vars

\* C21 witness: after a change of props and an image load error the timer of
\* the second effect run has expired and armed its successor.
C21_Witness ==
    /\ viewerMounted
    /\ viewerEffect = 2
    /\ nLoadErrors > 0
    /\ nImageUpdates >= 3
    /\ \E t \in viewerTimers : t.id >= 3

\* Sequence L holds no element twice.
NoDuplicates(L) == \A j, k \in DOMAIN L : j # k => L[j] # L[k]

\* C22: once a channel checkbox has been clicked, notification_channel_ids of
\* the form is null or a non-empty list without duplicates; it is never the
\* empty list.
C22_ChannelIdsNullOrNonEmpty ==
    nToggles > 0 =>
        \/ formData.notification_channel_ids = IdsNull
        \/ /\ ~formData.notification_channel_ids.null
           /\ formData.notification_channel_ids.list # <<>>
           /\ NoDuplicates(formData.notification_channel_ids.list)

\* C22 witness: the form of task 2, stored with an empty list, had a channel
\* checked and unchecked again, leaving no channel selected: it holds null.
C22_Witness ==
    /\ isDialogOpen
    /\ editingTask = 2
    /\ nToggles = 2
    /\ formData.notification_channel_ids = IdsNull

\* The step is a submission of the form.
Submitted == nSubmits' = nSubmits + 1

\* C29: the form state has no timezone field, and every create and update
\* submitted from the form carries the time zone of the submitting browser at
\* that moment, whatever the edited task's stored time zone is.
C29_SubmitCarriesBrowserZone ==
    /\ []("timezone" \notin DOMAIN formData)
    /\ [][Submitted =>
            /\ Len(taskRequests') = Len(taskRequests) + 1
            /\ taskRequests'[Len(taskRequests')].timezone = browserZone
            /\ taskRequests'[Len(taskRequests')].data = formData]_vars

\* C29 witness: task 1, stored for Asia/Shanghai, was edited from a browser in
\* Europe/Paris without touching its cron expression, and is now stored for
\* Europe/Paris.
C29_Witness ==
    /\ nSubmits = 1
    /\ taskRequests = <<>>
    /\ tasks[1].cron_expression = "*/30 * * * *"
    /\ tasks[1].timezone = "Europe/Paris"

\* C28: the page index of the execution history list is within the pages
\* there are: 0 <= page <= max(0, totalPages - 1).
C28_PageWithinRange == 0 <= page /\ page <= Max(0, totalPages - 1)

\* C25: in the Debug stream parser an event line applies only to the data
\* record that follows it: a data record that has no event line of its own and
\* whose type is step, sensitive, takeover, done or error is dispatched by the
\* branch of that type and not by the token branch.
C25_EventLineAppliesToOneRecord ==
    \A i \in DOMAIN parser.log :
        (~parser.log[i].own
           /\ parser.log[i].type \in {"step", "sensitive", "takeover", "done", "error"})
        => parser.log[i].branch = parser.log[i].type

\* C26: the Debug stream parser is independent of the boundaries of the
\* chunks read: whatever chunks the bytes read so far arrived in, the records
\* dispatched, the branch taken for each and the state of the parser are those
\* of reading the same bytes as one chunk.
C26_ChunkBoundariesDoNotMatter ==
    parser = [Feed(NewParser, consumed) EXCEPT !.ended = parser.ended]

\* C26 witness: a body read to its end in chunks, of which one ended inside a
\* line and one inside a character, from which two records were dispatched,
\* the later one with a message.
C26_Witness ==
    /\ parser.ended
    /\ splitSeen = {"line", "character"}
    /\ Len(parser.log) = 2
    /\ parser.log[2].message = <<"m">>

\* C30: once a player has signalled fallback on a page, the page stays in
\* fallback mode for as long as it is mounted: useFallback does not return to
\* false and no ScrcpyPlayer is rendered, so the video relay is not attempted
\* again, also after the refresh button of the Debug page or a change of the
\* active device.
C30_FallbackIsKept ==
    /\ [](\A p \in Pages : useFallback[p] => route = p /\ Player = NoPlayer)
    /\ [][\A p \in Pages :
            (useFallback[p] /\ route' = route) => (useFallback'[p] /\ Player' = NoPlayer)]_vars

\* C30 witness: the Debug page is in fallback mode, and since it entered it
\* the refresh button was clicked and the active device changed.
C30_Witness ==
    /\ route = "debug"
    /\ useFallback["debug"]
    /\ sinceFallback = {"refresh", "device"}
    /\ activeDevice # NoDevice

=============================================================================
